---- MODULE Spec2Model ----
(***************************************************************************)
(* State-machine model of the libnunchuk persistence and synchronization   *)
(* core: the wallet record store (NunchukWalletDb), the signer record      *)
(* store (NunchukSignerDb), the storage facade (NunchukStorage) and the    *)
(* Electrum synchronizer (ElectrumSynchronizer).                           *)
(*                                                                         *)
(* A SQLite table is a sequence of rows in rowid (insertion) order, which  *)
(* is the order a SELECT without ORDER BY walks it.  Opaque payloads (raw  *)
(* transactions, PSBTs, xpubs) are names drawn from small universes; what  *)
(* the codec extracts from them (txid, inputs, outputs) is a lookup.       *)
(***************************************************************************)
EXTENDS Integers, Sequences, FiniteSets, TLC

VARIABLES
  \* ---- NunchukWalletDb (one wallet store)
  addrs,      \* ADDRESS table: rows [addr, idx, internal, used, hasUtxo, utxo]
  vtx,        \* VTX table: rows [id, value, height, extra]
  lastUse,    \* last UseAddress call: [called, addr, present, wasUsed, ret]
  lastAdd,    \* last AddAddress call: [called, addr, wasUsed]
  \* ---- NunchukDb key/value tables
  walletDb,   \* wallet id -> its store [vstr, vint, signer], or NoStore
  createdAs,  \* wallet id -> what GetWallet returned right after InitWallet
  appState,   \* NunchukAppStateDb: VSTR and VINT tables
  lastPut,    \* last PutString / PutInt call: [called, had, same, ret]
  lastCall,   \* the last call of an operation that reports a result:
              \* [op, its arguments, what it found, what it returned]
  \* ---- ElectrumSynchronizer::UpdateTransactions
  events,     \* transaction_listener_ calls: txid -> [confirmed, pending]
  lastSync,   \* last history entry processed: [n, tx, h, pre]
  \* ---- NunchukSignerDb stores and the wallet directory of one chain
  signerDb,   \* fingerprint -> [master, bip32 rows, remote rows]
  walletFiles,\* ids of the wallet stores that exist
  allocated,  \* <<fingerprint, path>> for which UseIndex returned true
  \* ---- NunchukStorage facade threads calling CreateWallet
  access_,    \* boost::shared_mutex access_: "free" or the holding thread
  cw,         \* thread -> [pc, req, allow, i, ret] of its CreateWallet call
  initLog,    \* threads that ran InitWallet on the wallet store, in order
  \* ---- NunchukStorage::SetPassphrase
  passphrase_,\* the facade's process passphrase field
  storeKey,   \* chain -> store -> key the store is encrypted under, or Absent
  rot,        \* the rotating thread's frame
  rotations,  \* SetPassphrase calls started
  \* ---- NunchukStorage::MaybeMigrate
  flag,       \* the function-static std::once_flag
  mig,        \* thread -> [pc, runs] of its MaybeMigrate call
  migrated,   \* wallet -> number of times its store was migrated
  version,    \* storage version kept by the app-state store
  chainVer,   \* chain -> [app, wallet]: schema version of its app-state
              \* store and of its wallet store
  \* ---- ElectrumSynchronizer
  status_,        \* Status
  status_mutex_,  \* "free" or the holder
  ioQueue,        \* handlers posted to io_service_, in order
  worker,         \* position of the sync thread inside its handler
  dtor,           \* position of the destructor
  runCalls,       \* Run() calls made by the owner
  pos,            \* BlockchainSync: next step of the wallet / address loops
  done,           \* addresses subscribed, stored and reconciled by the pass
  published,      \* wallets whose balance the pass handed to balance_listener_
  lost,           \* the current client's connection was dropped by the server
  host,           \* position of the host thread inside LookAhead
  waiters,        \* thread -> [pc, slept] of its WaitForReady call
  tip             \* header subscription: [pc, header, delivered, registered]

walletVars == <<addrs, vtx, lastUse>>
historyVars == <<events, lastSync, lastAdd>>
ledgerVars == <<addrs, vtx, lastUse, events, lastSync, lastAdd>>
metaVars == <<walletDb, createdAs>>
appVars == <<appState, lastPut>>
signerVars == <<signerDb, walletFiles, allocated>>
createVars == <<access_, cw, initLog>>
rotateVars == <<passphrase_, storeKey, rot, rotations>>
migrateVars == <<flag, mig, migrated, version, chainVer>>
passVars == <<pos, done, published>>
syncVars ==
  <<status_, status_mutex_, ioQueue, worker, dtor, runCalls, passVars, lost, host, waiters, tip>>
vars ==
  <<ledgerVars, metaVars, appVars, lastCall, signerVars, createVars, rotateVars,
    migrateVars, syncVars>>
facadeVars ==
  <<metaVars, appVars, lastCall, signerVars, createVars, rotateVars, migrateVars,
    syncVars>>

----------------------------------------------------------------------------
(* Bounds and input universes *)

MaxHeight == 2      \* block heights reported by the backend: 1..MaxHeight
MaxSync == 3        \* cap on history entries processed in one behaviour

TxIds == {"t1", "t2", "t3"}
LedgerAddrs == {"a1", "c1"}

\* What DecodeRawTransaction / DecodePsbt yield for payload t: t1 pays the
\* receive address a1; t2 spends t1:0 and returns change to c1 (vout 1);
\* t3 spends that change output.
TxInputs(t) ==
  CASE t = "t1" -> {<<"t0", 0>>}
    [] t = "t2" -> {<<"t1", 0>>}
    [] OTHER    -> {<<"t2", 1>>}

TxOutputs(t) ==
  CASE t = "t1" -> <<[addr |-> "a1", amount |-> 2]>>
    [] t = "t2" -> <<[addr |-> "x", amount |-> 1], [addr |-> "c1", amount |-> 1]>>
    [] OTHER    -> <<[addr |-> "x", amount |-> 1]>>

\* Backend UTXO snapshots (blockchain.scripthash.listunspent) for an address.
Snapshots(a) ==
  IF a = "a1"
    THEN {<<>>, <<[txid |-> "t1", vout |-> 0, value |-> 2]>>}
    ELSE {<<>>, <<[txid |-> "t2", vout |-> 1, value |-> 1]>>}

NoExtra == [set |-> FALSE, null |-> FALSE, replace |-> "", replacedBy |-> "", signers |-> FALSE]

\* EXTRA of a row that was stored before the column was added by
\* ALTER TABLE VTX ADD COLUMN EXTRA TEXT: SQL NULL.
NullExtra == [NoExtra EXCEPT !.null = TRUE]

----------------------------------------------------------------------------
(* Generic helpers over tables *)

Range(s) == {s[i] : i \in DOMAIN s}

\* The rows of table s that are in keep, in table order.
RECURSIVE SelectSeq2(_, _)
SelectSeq2(s, keep) ==
  IF s = <<>> THEN <<>>
  ELSE IF Head(s) \in keep THEN <<Head(s)>> \o SelectSeq2(Tail(s), keep)
       ELSE SelectSeq2(Tail(s), keep)

RECURSIVE Flatten(_)
Flatten(ss) == IF ss = <<>> THEN <<>> ELSE Head(ss) \o Flatten(Tail(ss))

----------------------------------------------------------------------------
(* NunchukWalletDb: address ledger *)

HasAddr(A, a) == \E i \in DOMAIN A : A[i].addr = a

\* The insert as INSERT OR REPLACE: a second insert of the same primary key
\* puts a fresh row, USED = 0, in the place of the old one.
AddAddressReplace(A, a, idx, internal) ==
  Append(SelectSeq(A, LAMBDA r : r.addr # a),
         [addr |-> a, idx |-> idx, internal |-> internal,
          used |-> FALSE, hasUtxo |-> FALSE, utxo |-> <<>>])

\* INSERT INTO ADDRESS ... VALUES (?, ?, ?, 0): a second insert of the same
\* primary key fails inside sqlite3_step and leaves the row as it was.
AddAddressRows(A, a, idx, internal) ==
  IF HasAddr(A, a) THEN A
  ELSE Append(A, [addr |-> a, idx |-> idx, internal |-> internal,
                  used |-> FALSE, hasUtxo |-> FALSE, utxo |-> <<>>])

\* Rows matched by "UPDATE ADDRESS SET USED = 1 WHERE ADDR = ?".
UseAddressMatch(A, a) == {i \in DOMAIN A : A[i].addr = a}

UseAddressRows(A, a) ==
  [i \in DOMAIN A |-> IF i \in UseAddressMatch(A, a)
                        THEN [A[i] EXCEPT !.used = TRUE] ELSE A[i]]

\* sqlite3_changes() == 1: the number of rows the UPDATE matched.
UseAddressRet(A, a) == a # "" /\ Cardinality(UseAddressMatch(A, a)) = 1

RECURSIVE UseAddressAll(_, _)
UseAddressAll(A, outs) ==
  IF outs = <<>> THEN A
  ELSE UseAddressAll(UseAddressRows(A, Head(outs).addr), Tail(outs))

SetUtxosRows(A, a, snap) ==
  [i \in DOMAIN A |-> IF A[i].addr = a
                        THEN [A[i] EXCEPT !.hasUtxo = TRUE, !.utxo = snap]
                        ELSE A[i]]

\* SELECT ADDR FROM ADDRESS WHERE USED = ?1 AND INTERNAL = ?2
GetAddresses(A, used, internal) ==
  {A[i].addr : i \in {j \in DOMAIN A : A[j].used = used /\ A[j].internal = internal}}

----------------------------------------------------------------------------
(* NunchukWalletDb: transaction ledger *)

HasTx(V, t) == \E i \in DOMAIN V : V[i].id = t
TxRow(V, t) == V[CHOOSE i \in DOMAIN V : V[i].id = t]

\* Transaction status as derived from the stored height, then FillExtra.
StatusOfHeight(h) ==
  IF h > 0 THEN "CONFIRMED"
  ELSE IF h = 0 THEN "PENDING_CONFIRMATION"
  ELSE IF h = -1 THEN "PENDING_SIGNATURES"
  ELSE "NETWORK_REJECTED"

FillExtraStatus(row) ==
  IF row.extra.set /\ StatusOfHeight(row.height) = "PENDING_CONFIRMATION"
     /\ row.extra.replacedBy # ""
    THEN "REPLACED" ELSE StatusOfHeight(row.height)

\* The Transaction object GetTransaction / GetTransactions builds from a row.
TxOfRow(row) ==
  [txid |-> row.id, height |-> row.height, inputs |-> TxInputs(row.value),
   outputs |-> TxOutputs(row.value), status |-> FillExtraStatus(row)]

\* A plain INSERT INTO VTX: on an existing ID sqlite3_step fails on the
\* primary key, the row stays as it was, and SQLCHECK(sqlite3_finalize(stmt))
\* throws SQL_ERROR out of the calling function.
InsertThrows(V, id) == HasTx(V, id)
InsertRow(V, row) == IF InsertThrows(V, row.id) THEN V ELSE Append(V, row)

DeleteTransactionRows(V, t) == SelectSeq2(V, {r \in Range(V) : r.id # t})

\* SetReplacedBy: a row whose EXTRA is NULL is skipped, an EXTRA that is
\* the empty string makes json::parse throw, a JSON EXTRA gets the key
\* replaced_by_txid and is written back.
SetReplacedByThrows(V, old) ==
  HasTx(V, old) /\ ~TxRow(V, old).extra.null /\ ~TxRow(V, old).extra.set

SetReplacedByRows(V, old, new) ==
  [i \in DOMAIN V |-> IF V[i].id = old /\ V[i].extra.set
                        THEN [V[i] EXCEPT !.extra.replacedBy = new]
                        ELSE V[i]]

\* UpdateTransaction(raw_tx, height, ...): the rows of VTX afterwards.
\* The draft whose EXTRA is read back: a row at height -1 with a non-NULL
\* EXTRA, looked for only when height <= 0.
HasDraftExtra(V, t, h) ==
  h <= 0 /\ HasTx(V, t) /\ TxRow(V, t).height = -1 /\ ~TxRow(V, t).extra.null

\* json::parse of an empty EXTRA throws, in UpdateTransaction itself or in
\* SetReplacedBy, before the UPDATE statement runs.
UpdateTransactionThrows(V, t, h) ==
  /\ h # -1
  /\ HasDraftExtra(V, t, h)
  /\ \/ ~TxRow(V, t).extra.set
     \/ /\ TxRow(V, t).extra.replace # ""
        /\ SetReplacedByThrows(V, TxRow(V, t).extra.replace)

UpdateTransactionRows(V, t, h) ==
  LET draft == HasDraftExtra(V, t, h)
      V1 == IF draft /\ TxRow(V, t).extra.replace # ""
              THEN SetReplacedByRows(V, TxRow(V, t).extra.replace, t) ELSE V
  IN  IF UpdateTransactionThrows(V, t, h) THEN V ELSE
      [i \in DOMAIN V1 |->
         IF V1[i].id = t
           THEN [V1[i] EXCEPT !.value = t, !.height = h,
                              !.extra = IF draft
                                          THEN [TxRow(V, t).extra EXCEPT !.signers = TRUE]
                                          ELSE V1[i].extra]
           ELSE V1[i]]

UpdateTransactionRet(V, t, h) == h # -1 /\ HasTx(V, t) /\ ~UpdateTransactionThrows(V, t, h)

\* The address ledger after UpdateTransaction: outputs are marked used when
\* a row was updated to a confirmed height.
UpdateTransactionAddrs(A, V, t, h) ==
  IF UpdateTransactionRet(V, t, h) /\ h > 0
    THEN UseAddressAll(A, TxOfRow(TxRow(UpdateTransactionRows(V, t, h), t)).outputs)
    ELSE A

\* InsertTransaction(raw_tx, height, ...)
InsertTransactionRows(V, t, h) ==
  InsertRow(V, [id |-> t, value |-> t, height |-> h, extra |-> NoExtra])

InsertTransactionAddrs(A, V, t, h) ==
  IF h > 0 /\ ~InsertThrows(V, t)
    THEN UseAddressAll(A, TxOfRow(TxRow(InsertTransactionRows(V, t, h), t)).outputs)
    ELSE A

\* CreatePsbt(psbt, ..., replace_tx): a draft row at height -1.
CreatePsbtRows(V, t, replace) ==
  InsertRow(V, [id |-> t, value |-> t, height |-> -1,
                extra |-> [set |-> TRUE, null |-> FALSE, replace |-> replace,
                           replacedBy |-> "", signers |-> FALSE]])

\* SELECT * FROM VTX WHERE ID = ? AND HEIGHT = -1
IsDraft(V, t) == \E i \in DOMAIN V : V[i].id = t /\ V[i].height = -1

\* UpdatePsbtTxId: the draft's columns are inserted under new_id with a plain
\* INSERT, then DeleteTransaction removes old_id.  Without a draft it throws
\* TX_NOT_FOUND, with a row under new_id it throws SQL_ERROR before the
\* delete.
UpdatePsbtTxIdThrows(V, old_id, new_id) ==
  ~IsDraft(V, old_id) \/ InsertThrows(V, new_id)

\* The EXTRA bound to the INSERT: the std::string read from the draft, which
\* is empty when the draft's EXTRA is NULL.
CopiedExtra(extra) == IF extra.null THEN NoExtra ELSE extra

UpdatePsbtTxIdRows(V, old_id, new_id) ==
  IF UpdatePsbtTxIdThrows(V, old_id, new_id) THEN V
  ELSE DeleteTransactionRows(
         InsertRow(V, [TxRow(V, old_id) EXCEPT !.id = new_id,
                                               !.extra = CopiedExtra(@)]), old_id)

----------------------------------------------------------------------------
(* NunchukWalletDb::GetUnspentOutputs *)

\* Transactions whose inputs and change outputs are looked at: the loop
\* skips every transaction whose height is not 0.
Scanned(tx) == tx.height = 0

IsMyChange(A, a) == a \in GetAddresses(A, FALSE, TRUE)

\* Positions (from 1) of the outputs of tx that pay one of the change
\* addresses; the code's vout of position v is v - 1.
ChangeVouts(A, tx) ==
  {v \in DOMAIN tx.outputs : IsMyChange(A, tx.outputs[v].addr)}

\* locked_utxos without the injected change outputs: the inputs of the
\* scanned transactions only.
LockedInputsOnly(A, V, remove_locked) ==
  UNION {IF remove_locked THEN TxOfRow(V[i]).inputs ELSE {}
         : i \in {j \in DOMAIN V : Scanned(TxOfRow(V[j]))}}

\* locked_utxos after the loop over the transactions.
LockedUtxos(A, V, remove_locked) ==
  UNION {
    {<<V[i].id, v - 1>> : v \in ChangeVouts(A, TxOfRow(V[i]))}
      \cup (IF remove_locked THEN TxOfRow(V[i]).inputs ELSE {})
    : i \in {j \in DOMAIN V : Scanned(TxOfRow(V[j]))}}

\* Change outputs of one transaction pushed to the result, in vout order.
RECURSIVE InjectFrom(_, _, _)
InjectFrom(A, tx, v) ==
  IF v > Len(tx.outputs) THEN <<>>
  ELSE (IF v \in ChangeVouts(A, tx)
          THEN <<[txid |-> tx.txid, vout |-> v - 1, addr |-> tx.outputs[v].addr,
                  amount |-> tx.outputs[v].amount, height |-> tx.height]>>
          ELSE <<>>) \o InjectFrom(A, tx, v + 1)

InjectedChange(A, V) ==
  Flatten([i \in DOMAIN V |->
             IF Scanned(TxOfRow(V[i])) THEN InjectFrom(A, TxOfRow(V[i]), 1)
             ELSE <<>>])

HeightMap(V, t) == IF HasTx(V, t) THEN TxRow(V, t).height ELSE 0

RECURSIVE SnapshotFrom(_, _, _, _)
SnapshotFrom(V, a, items, locked) ==
  IF items = <<>> THEN <<>>
  ELSE (IF <<Head(items).txid, Head(items).vout>> \in locked THEN <<>>
        ELSE <<[txid |-> Head(items).txid, vout |-> Head(items).vout,
                addr |-> a, amount |-> Head(items).value,
                height |-> HeightMap(V, Head(items).txid)]>>)
       \o SnapshotFrom(V, a, Tail(items), locked)

GetUnspentOutputs(A, V, remove_locked) ==
  InjectedChange(A, V)
    \o Flatten([i \in DOMAIN A |->
                  IF A[i].hasUtxo
                    THEN SnapshotFrom(V, A[i].addr, A[i].utxo,
                                      LockedUtxos(A, V, remove_locked))
                    ELSE <<>>])

\* NunchukWalletDb::GetBalance: the amounts of GetUnspentOutputs(true) whose
\* height is positive or whose address is among GetAddresses(false, true).
RECURSIVE BalanceOf(_, _)
BalanceOf(A, utxos) ==
  IF utxos = <<>> THEN 0
  ELSE (IF Head(utxos).height > 0 \/ IsMyChange(A, Head(utxos).addr)
          THEN Head(utxos).amount ELSE 0) + BalanceOf(A, Tail(utxos))

GetBalance(A, V) == BalanceOf(A, GetUnspentOutputs(A, V, TRUE))

Outpoints(rs) == {<<rs[i].txid, rs[i].vout>> : i \in DOMAIN rs}

----------------------------------------------------------------------------
(* Wallet-store operations as actions *)

AddrInternal(a) == a = "c1"

AddAddress(a) ==
  /\ addrs' = AddAddressRows(addrs, a, 0, AddrInternal(a))
  /\ lastAdd' = [called |-> TRUE, addr |-> a,
                 wasUsed |-> \E i \in DOMAIN addrs :
                               addrs[i].addr = a /\ addrs[i].used]
  /\ UNCHANGED <<vtx, lastUse, events, lastSync, facadeVars>>

UseAddress(a) ==
  /\ addrs' = UseAddressRows(addrs, a)
  /\ lastUse' = [called |-> TRUE, addr |-> a,
                 wasUsed |-> \E i \in DOMAIN addrs : addrs[i].addr = a /\ addrs[i].used,
                 present |-> HasAddr(addrs, a),
                 ret |-> UseAddressRet(addrs, a)]
  /\ UNCHANGED <<vtx, historyVars, facadeVars>>

SetUtxos(a, snap) ==
  /\ addrs' = SetUtxosRows(addrs, a, snap)
  /\ UNCHANGED <<vtx, lastUse, historyVars, facadeVars>>

CreatePsbt(t) ==
  /\ vtx' = CreatePsbtRows(vtx, t, "")
  /\ UNCHANGED <<addrs, lastUse, historyVars, facadeVars>>

\* CreatePsbt with replace_tx = r: the draft of a fee bump of r.
CreateReplacement(t, r) ==
  /\ vtx' = CreatePsbtRows(vtx, t, r)
  /\ UNCHANGED <<addrs, lastUse, historyVars, facadeVars>>

InsertTransaction(t, h) ==
  /\ vtx' = InsertTransactionRows(vtx, t, h)
  /\ addrs' = InsertTransactionAddrs(addrs, vtx, t, h)
  /\ UNCHANGED <<lastUse, historyVars, facadeVars>>

UpdateTransaction(t, h) ==
  /\ IF h = -1
       THEN UNCHANGED <<vtx, addrs>>
       ELSE /\ vtx' = UpdateTransactionRows(vtx, t, h)
            /\ addrs' = UpdateTransactionAddrs(addrs, vtx, t, h)
  /\ UNCHANGED <<lastUse, historyVars, facadeVars>>

DeleteTransaction(t) ==
  /\ vtx' = DeleteTransactionRows(vtx, t)
  /\ UNCHANGED <<addrs, lastUse, historyVars, facadeVars>>

UpdatePsbtTxId(old_id, new_id) ==
  /\ vtx' = UpdatePsbtTxIdRows(vtx, old_id, new_id)
  /\ UNCHANGED <<addrs, lastUse, historyVars, facadeVars>>

----------------------------------------------------------------------------
(* ElectrumSynchronizer::UpdateTransactions, one history entry (txid, h) *)

NeedsPromoteAnyStatus(status, h) == h > 0
NeedsPromote(status, h) == status # "CONFIRMED" /\ h > 0

Fire(E, t, kind) ==
  [E EXCEPT ![t] = IF kind = "CONFIRMED"
                     THEN [@ EXCEPT !.confirmed = @ + 1]
                     ELSE [@ EXCEPT !.pending = @ + 1]]

UpdateTransactionsEntry(t, h) ==
  /\ lastSync.n < MaxSync
  /\ lastSync' = [n |-> lastSync.n + 1, tx |-> t, h |-> h,
                  pre |-> IF HasTx(vtx, t) THEN TxOfRow(TxRow(vtx, t)).status
                          ELSE "NONE"]
  /\ IF HasTx(vtx, t)
       THEN IF NeedsPromote(TxOfRow(TxRow(vtx, t)).status, h)
              THEN /\ vtx' = UpdateTransactionRows(vtx, t, h)
                   /\ addrs' = UpdateTransactionAddrs(addrs, vtx, t, h)
                   /\ events' = Fire(events, t, "CONFIRMED")
              ELSE UNCHANGED <<vtx, addrs, events>>
       ELSE LET hh == IF h <= 0 THEN 0 ELSE h IN
            /\ vtx' = InsertTransactionRows(vtx, t, hh)
            /\ addrs' = InsertTransactionAddrs(addrs, vtx, t, hh)
            /\ events' = Fire(events, t, IF h <= 0 THEN "PENDING_CONFIRMATION"
                                         ELSE "CONFIRMED")
  /\ UNCHANGED <<lastUse, lastAdd, facadeVars>>

----------------------------------------------------------------------------
(* NunchukDb: the VSTR and VINT key/value tables *)

STORAGE_VER == 3

\* A table maps each key to the set of values its row holds: none or one.
NoRow == {}
\* A wallet id with no store file.
NoStore == [file |-> FALSE]

\* INSERT .. ON CONFLICT(ID) DO UPDATE SET VALUE = excluded.VALUE on a table
\* whose row, if any, is replaced.
Upsert(table, key, value) == [table EXCEPT ![key] = {value}]

\* sqlite3_changes() after the upsert: the row inserted, or the row the
\* DO UPDATE branch wrote, whatever value it held.
UpsertChanges(table, key, value) == 1

PutString(vstr, key, value) == Upsert(vstr, key, value)
PutStringRet(vstr, key, value) == UpsertChanges(vstr, key, value) = 1
PutInt(vint, key, value) == Upsert(vint, key, value)
PutIntRet(vint, key, value) == UpsertChanges(vint, key, value) = 1

\* GetString / GetInt: the default value when the key has no row.
GetString(vstr, key) ==
  IF vstr[key] = NoRow THEN "" ELSE CHOOSE v \in vstr[key] : TRUE
GetInt(vint, key) ==
  IF vint[key] = NoRow THEN 0 ELSE CHOOSE v \in vint[key] : TRUE

----------------------------------------------------------------------------
(* NunchukWalletDb: wallet metadata *)

\* GetSingleSignerKey: the SIGNER primary key (the model's keys carry no
\* separate public key).
GetSingleSignerKey(signer) ==
  [xpub |-> signer.xpub, derivation_path |-> signer.path,
   master_fingerprint |-> signer.fp]

\* AddSigner: a plain INSERT of the key with the name and the last health
\* check the caller's SingleSigner carries.  A duplicate KEY makes
\* sqlite3_step fail, the rows stay as they were, and
\* SQLCHECK(sqlite3_finalize(stmt)) throws SQL_ERROR.
AddSignerThrows(rows, signer) ==
  \E i \in DOMAIN rows : rows[i].key = GetSingleSignerKey(signer)

AddSigner(rows, signer) ==
  IF AddSignerThrows(rows, signer)
    THEN rows
    ELSE Append(rows, [key |-> GetSingleSignerKey(signer),
                       name |-> signer.name,
                       last_health_check |-> signer.last_health_check])

\* for (auto&& signer : signers) AddSigner(signer): the loop ends at the
\* first AddSigner that throws.
RECURSIVE AddSigners(_, _)
AddSigners(rows, signers) ==
  IF signers = <<>> \/ AddSignerThrows(rows, Head(signers)) THEN rows
  ELSE AddSigners(AddSigner(rows, Head(signers)), Tail(signers))

RECURSIVE AddSignersThrow(_, _)
AddSignersThrow(rows, signers) ==
  /\ signers # <<>>
  /\ \/ AddSignerThrows(rows, Head(signers))
     \/ AddSignersThrow(AddSigner(rows, Head(signers)), Tail(signers))

\* InitWallet on a fresh store file: CreateTable, the three CREATE TABLE
\* statements, NAME, DESCRIPTION, IMMUTABLE_DATA and the signers.  It throws
\* out of the signer loop when two of the signers have the same key.
InitWalletNeverThrows(signers) == FALSE
InitWalletThrows(signers) == AddSignersThrow(<<>>, signers)

InitWallet(id, name, m, n, signers, address_type, is_escrow, description) ==
  [vstr |-> [ID |-> {id}, NAME |-> {name}, DESCRIPTION |-> {description},
             IMMUTABLE_DATA |-> {[m |-> m, n |-> n,
                                  address_type |-> address_type,
                                  is_escrow |-> is_escrow]}],
   vint |-> [VERSION |-> {STORAGE_VER}],
   signer |-> AddSigners(<<>>, signers)]

\* InitWallet on a store that is open already: CreateTable and the CREATE
\* TABLE IF NOT EXISTS statements keep the tables, PutString and PutInt
\* replace the rows of their keys, AddSigner inserts the keys not yet there
\* and throws at the first key that is stored already, after the name and
\* the policy data were written.
InitWalletOpened(store, id, name, m, n, signers, address_type, is_escrow, description) ==
  [store EXCEPT
     !.vstr = PutString(PutString(PutString(PutString(@, "ID", id),
                "NAME", name), "DESCRIPTION", description),
                "IMMUTABLE_DATA", [m |-> m, n |-> n,
                                   address_type |-> address_type,
                                   is_escrow |-> is_escrow]),
     !.vint = PutInt(@, "VERSION", STORAGE_VER),
     !.signer = AddSigners(@, signers)]
InitWalletOpenedThrows(store, signers) == AddSignersThrow(store.signer, signers)

SetName(store, value) ==
  [store EXCEPT !.vstr = PutString(@, "NAME", value)]
SetDescription(store, value) ==
  [store EXCEPT !.vstr = PutString(@, "DESCRIPTION", value)]

\* GetSigners: the rows in rowid order (the statement reads columns the
\* index on KEY does not cover), each key parsed back into its fields.
GetSigners(store) ==
  [i \in DOMAIN store.signer |->
     [name |-> store.signer[i].name,
      xpub |-> store.signer[i].key.xpub,
      path |-> store.signer[i].key.derivation_path,
      fp |-> store.signer[i].key.master_fingerprint,
      last_health_check |-> store.signer[i].last_health_check]]

\* GetWallet, without name and balance: what the store says the wallet is.
GetWallet(id, store) ==
  LET immutable_data == CHOOSE v \in store.vstr["IMMUTABLE_DATA"] : TRUE IN
  [id |-> id, m |-> immutable_data.m, n |-> immutable_data.n,
   address_type |-> immutable_data.address_type,
   is_escrow |-> immutable_data.is_escrow,
   signers |-> GetSigners(store)]

\* NunchukWalletDb::MaybeMigrate: the ALTER TABLE statements touch VTX only.
WalletMaybeMigrate(store) ==
  IF GetInt(store.vint, "VERSION") = STORAGE_VER THEN store
  ELSE [store EXCEPT !.vint = PutInt(@, "VERSION", STORAGE_VER)]

----------------------------------------------------------------------------
(* NunchukSignerDb: the BIP32 xpub cache and the REMOTE table *)

MaxIndex == 2       \* cache indexes: 0..MaxIndex

Fingerprints == {"f1", "f2"}
Indexes == 0..MaxIndex

\* A derivation path is <<purpose prefix, account index, hardened mark>>.
GetBip32Path(wallet_type, index) == <<wallet_type, index, "'">>
GetBip32Type(wallet_type) == wallet_type
GetIndexFromPath(path) == path[2]
FormalizePath(path) == <<path[1], path[2], "'">>
XpubAt(fp, path) == <<fp, path[1], path[2]>>

HasPath(rows, path) == \E i \in DOMAIN rows : rows[i].path = path

\* INSERT .. VALUES (path, xpub, type, -1) ON CONFLICT(PATH) DO UPDATE SET
\* XPUB = excluded.XPUB, with the conflict clause written as REPLACE: the old
\* row is dropped and the new one (USED = -1) is appended.
AddXPubReplace(rows, path, xpub, type) ==
  SelectSeq(rows, LAMBDA r : r.path # path)
    \o <<[path |-> path, xpub |-> xpub, type |-> type, used |-> -1]>>

\* NunchukSignerDb::AddXPub(path, xpub, type)
AddXPub(rows, path, xpub, type) ==
  IF HasPath(rows, path)
    THEN [i \in DOMAIN rows |->
            IF rows[i].path = path THEN [rows[i] EXCEPT !.xpub = xpub]
            ELSE rows[i]]
    ELSE Append(rows, [path |-> path, xpub |-> xpub, type |-> type,
                       used |-> -1])

\* NunchukSignerDb::UseIndex: UPDATE BIP32 SET USED = 1 WHERE PATH = ? AND
\* USED = -1; true iff a row was changed.
UseIndexRet(rows, path) ==
  \E i \in DOMAIN rows : rows[i].path = path /\ rows[i].used = -1

UseIndex(rows, path) ==
  [i \in DOMAIN rows |->
     IF rows[i].path = path /\ rows[i].used = -1
       THEN [rows[i] EXCEPT !.used = 1]
       ELSE rows[i]]

\* NunchukSignerDb::GetUnusedIndex: the index of the first row of the bucket
\* with USED = -1, or -1.
GetUnusedIndex(rows, wallet_type) ==
  LET hit == {i \in DOMAIN rows : rows[i].type = GetBip32Type(wallet_type)
                                   /\ rows[i].used = -1}
  IN  IF hit = {} THEN -1
      ELSE GetIndexFromPath(rows[CHOOSE i \in hit : \A j \in hit : i <= j].path)

\* NunchukSignerDb::GetCachedIndex: the highest index cached for the bucket.
GetCachedIndex(rows, wallet_type) ==
  LET hit == {GetIndexFromPath(rows[i].path) :
                i \in {j \in DOMAIN rows :
                         rows[j].type = GetBip32Type(wallet_type)}}
  IN  IF hit = {} THEN -1 ELSE CHOOSE v \in hit : \A w \in hit : w <= v

\* A signer store: the BIP32 table (and whether it exists), the REMOTE
\* table, and the NAME and LAST_HEALTH_CHECK keys of its key/value tables.
\* file: the store file exists (GetSignerDb throws when it does not; the
\* NunchukSignerDb constructor creates it).
SignerStore(master, name) ==
  [file |-> master, master |-> master, name |-> name, mnemonic |-> "",
   last_health_check |-> 0, bip32 |-> <<>>, remote |-> <<>>]

\* NunchukSignerDb::AddRemote: a plain INSERT, which a duplicate PATH
\* rejects; LAST_HEALTHCHECK starts at 0 (the model's keys carry no
\* separate public key).
AddRemote(rows, name, xpub, path, used) ==
  IF HasPath(rows, path) THEN rows
  ELSE Append(rows, [path |-> path, xpub |-> xpub, name |-> name,
                     last_health_check |-> 0,
                     used |-> IF used THEN 1 ELSE -1])
AddRemoteRet(rows, path) == ~HasPath(rows, path)

\* NunchukSignerDb::GetRemoteSigner finds a row, or throws SIGNER_NOT_FOUND.
GetRemoteSignerFound(rows, path) == HasPath(rows, path)

\* NunchukSignerDb::UseRemote
UseRemote(rows, path) ==
  [i \in DOMAIN rows |->
     IF rows[i].path = path /\ rows[i].used = -1
       THEN [rows[i] EXCEPT !.used = 1]
       ELSE rows[i]]

\* NunchukSignerDb::IsMaster: the store has a BIP32 table.
IsMaster(sd) == sd.master

----------------------------------------------------------------------------
(* NunchukStorage::CreateWallet0 *)

\* SingleSigner values a caller can pass: keys of the master signer f1 at a
\* multisig cache index (written with either hardened mark) and the
\* foreign key f2, known only by its path and xpub.
MasterKey(i, mark) ==
  [fp |-> "f1", path |-> <<"multi", i, mark>>,
   xpub |-> XpubAt("f1", <<"multi", i>>), name |-> "k", last_health_check |-> 0]
RemoteKey ==
  [fp |-> "f2", path |-> <<"remote", 0, "'">>,
   xpub |-> XpubAt("f2", <<"remote", 0>>), name |-> "k", last_health_check |-> 0]

\* CreateWallet arguments: [m, n, signers].
Requests ==
  {[m |-> 1, n |-> 1, signers |-> <<RemoteKey>>]}
    \cup {[m |-> 2, n |-> 2, signers |-> <<RemoteKey, MasterKey(i, "'")>>] :
            i \in Indexes}
    \cup {[m |-> 2, n |-> 2, signers |-> <<RemoteKey, MasterKey(0, "h")>>],
          [m |-> 2, n |-> 1, signers |-> <<RemoteKey>>],
          [m |-> 1, n |-> 1, signers |-> <<MasterKey(0, "'")>>]}

WalletTypeOf(n) == IF n = 1 THEN "single" ELSE "multi"

\* A request that names the same foreign key twice.
DuplicateRequest == [m |-> 1, n |-> 2, signers |-> <<RemoteKey, RemoteKey>>]

\* The keys of a descriptor in their canonical form, each with the number
\* of times it occurs: descriptor construction sorts the keys.
KeyBag(signers) ==
  LET key(i) == <<signers[i].fp, FormalizePath(signers[i].path)>> IN
  [k \in {key(i) : i \in DOMAIN signers} |->
     Cardinality({i \in DOMAIN signers : key(i) = k})]

\* GetDescriptorChecksum(GetDescriptorForSigners(..)): the wallet id is a
\* function of the wallet kind, the threshold and the keys (the model's
\* wallets are all of one address kind).
WalletIdOf(wallet_type, m, signers) == <<wallet_type, m, KeyBag(signers)>>
WalletId(req) == WalletIdOf(WalletTypeOf(req.n), req.m, req.signers)

WalletIds == {WalletId(r) : r \in Requests \cup {DuplicateRequest}}

\* One turn of the loop over the signers: [db, err, alloc].
SignerStep(db0, signer, wallet_type, allow_used_signer) ==
  LET db == [db0 EXCEPT ![signer.fp].file = TRUE]
      sd == db[signer.fp] IN
  IF IsMaster(sd) /\ signer.xpub # ""
    THEN LET index == GetIndexFromPath(signer.path)
             path == GetBip32Path(wallet_type, index)
             added == AddXPub(sd.bip32, path, signer.xpub,
                              GetBip32Type(wallet_type))
             ok == UseIndexRet(added, path)
             after == [db EXCEPT ![signer.fp].bip32 = UseIndex(added, path)]
         IN  IF FormalizePath(path) # FormalizePath(signer.path)
               THEN [db |-> db, err |-> "INVALID_BIP32_PATH", alloc |-> {}]
             ELSE IF ~ok /\ ~allow_used_signer
               THEN [db |-> after, err |-> "SIGNER_USED", alloc |-> {}]
             ELSE [db |-> after, err |-> "",
                   alloc |-> IF ok THEN {<<signer.fp, path>>} ELSE {}]
    ELSE IF GetRemoteSignerFound(sd.remote, signer.path)
      THEN [db |-> [db EXCEPT ![signer.fp].remote = UseRemote(@, signer.path)],
            err |-> "", alloc |-> {}]
      ELSE [db |-> [db EXCEPT ![signer.fp].remote =
                                 AddRemote(@, "import", signer.xpub, signer.path,
                                           TRUE)],
            err |-> "", alloc |-> {}]

\* The loop from signer i on: [db, err, alloc].
RECURSIVE SignerLoop(_, _, _, _, _)
SignerLoop(db, req, i, allow_used_signer, alloc) ==
  IF i > Len(req.signers) THEN [db |-> db, err |-> "", alloc |-> alloc]
  ELSE LET r == SignerStep(db, req.signers[i], WalletTypeOf(req.n),
                           allow_used_signer)
       IN  IF r.err # "" THEN [db |-> r.db, err |-> r.err, alloc |-> alloc]
           ELSE SignerLoop(r.db, req, i + 1, allow_used_signer,
                           alloc \cup r.alloc)

\* The whole call: [db, files, ret, alloc].
CreateWallet0(db, files, req, allow_used_signer) ==
  IF req.m > req.n \/ req.n # Len(req.signers)
    THEN [db |-> db, files |-> files, ret |-> "INVALID_PARAMETER", alloc |-> {}]
  ELSE LET r == SignerLoop(db, req, 1, allow_used_signer, {}) IN
       IF r.err # ""
         THEN [db |-> r.db, files |-> files, ret |-> r.err, alloc |-> r.alloc]
       ELSE IF WalletId(req) \in files
         THEN [db |-> r.db, files |-> files, ret |-> "WALLET_EXISTED",
               alloc |-> r.alloc]
       ELSE [db |-> r.db, files |-> files \cup {WalletId(req)},
             ret |-> IF InitWalletThrows(req.signers) THEN "SQL_ERROR" ELSE "OK",
             alloc |-> r.alloc]

\* The wallet stores after the call: InitWallet has filled the new store
\* file, up to the signer whose insert threw; the model's wallets are all
\* NATIVE_SEGWIT, not escrow.
StoreCreated(stores, ret, req, name, description) ==
  IF ret \in {"OK", "SQL_ERROR"}
    THEN [stores EXCEPT ![WalletId(req)] =
            InitWallet(WalletId(req), name, req.m, req.n, req.signers,
                       "NATIVE_SEGWIT", FALSE, description)]
    ELSE stores

\* What GetWallet says of a wallet the call has just created.
CreatedAs(created, ret, req, stores) ==
  IF ret = "OK"
    THEN [created EXCEPT ![WalletId(req)] =
            GetWallet(WalletId(req), stores[WalletId(req)])]
    ELSE created

----------------------------------------------------------------------------
(* Facade operations on the signer stores, each under access_ *)

\* NunchukStorage::CreateWallet, run to completion.
CreateWallet(req, allow_used_signer) ==
  LET r == CreateWallet0(signerDb, walletFiles, req, allow_used_signer) IN
  /\ signerDb' = r.db
  /\ walletFiles' = r.files
  /\ allocated' = allocated \cup r.alloc
  /\ walletDb' = StoreCreated(walletDb, r.ret, req, "n1", "")
  /\ createdAs' = CreatedAs(createdAs, r.ret, req, walletDb')
  /\ UNCHANGED <<ledgerVars, appVars, lastCall, createVars, rotateVars, migrateVars, syncVars>>

\* NunchukWalletDb::InitWallet called on the store of an existing wallet.
InitWalletCall(id, name, req) ==
  /\ id \in walletFiles
  /\ walletDb' = [walletDb EXCEPT ![id] =
                   InitWalletOpened(@, id, name, req.m, req.n, req.signers,
                                    "NATIVE_SEGWIT", FALSE, "")]
  /\ lastCall' = [op |-> "InitWallet", id |-> id,
                  threw |-> InitWalletOpenedThrows(walletDb[id], req.signers)]
  /\ UNCHANGED <<createdAs, signerVars>>
  /\ UNCHANGED <<ledgerVars, appVars, createVars, rotateVars, migrateVars, syncVars>>

\* NunchukStorage::DeleteWallet
DeleteWallet(id) ==
  /\ id \in walletFiles
  /\ walletFiles' = walletFiles \ {id}
  /\ walletDb' = [walletDb EXCEPT ![id] = NoStore]
  /\ createdAs' = [createdAs EXCEPT ![id] = NoStore]
  /\ UNCHANGED <<signerDb, allocated>>
  /\ UNCHANGED <<ledgerVars, appVars, lastCall, createVars, rotateVars, migrateVars, syncVars>>

\* A caller caches one xpub of master signer fp.
AddXPubCall(fp, i) ==
  /\ IsMaster(signerDb[fp])
  /\ signerDb' = [signerDb EXCEPT ![fp].bip32 =
                    AddXPub(@, GetBip32Path("multi", i),
                            XpubAt(fp, <<"multi", i>>), GetBip32Type("multi"))]
  /\ UNCHANGED <<walletFiles, allocated>>
  /\ UNCHANGED <<ledgerVars, metaVars, appVars, lastCall, createVars, rotateVars, migrateVars, syncVars>>

\* A caller marks index i of master signer fp.
UseIndexCall(fp, i) ==
  /\ IsMaster(signerDb[fp])
  /\ signerDb' = [signerDb EXCEPT ![fp].bip32 =
                    UseIndex(@, GetBip32Path("multi", i))]
  /\ allocated' = IF UseIndexRet(signerDb[fp].bip32, GetBip32Path("multi", i))
                    THEN allocated \cup {<<fp, GetBip32Path("multi", i)>>}
                    ELSE allocated
  /\ UNCHANGED walletFiles
  /\ UNCHANGED <<ledgerVars, metaVars, appVars, lastCall, createVars, rotateVars, migrateVars, syncVars>>

\* NunchukStorage::CacheMasterSignerXPub with one more index per bucket; the
\* first connection also caches the custom path "m".
CacheIndexFrom(rows, wallet_type) ==
  LET cached == GetCachedIndex(rows, wallet_type) IN
  IF cached < 0 /\ wallet_type = "multi" THEN 0 ELSE cached

CacheMasterSignerXPub(fp, first) ==
  LET rows0 == signerDb[fp].bip32
      rows1 == IF first
                 THEN AddXPub(rows0, <<"m", 0, "'">>, XpubAt(fp, <<"m", 0>>),
                              "custom")
                 ELSE rows0
      index == CacheIndexFrom(rows1, "multi")
  IN  /\ IsMaster(signerDb[fp])
      /\ index + 1 <= MaxIndex
      /\ signerDb' = [signerDb EXCEPT ![fp].bip32 =
                        AddXPub(rows1, GetBip32Path("multi", index + 1),
                                XpubAt(fp, <<"multi", index + 1>>),
                                GetBip32Type("multi"))]
      /\ UNCHANGED <<walletFiles, allocated>>
      /\ UNCHANGED <<ledgerVars, metaVars, appVars, lastCall, createVars, rotateVars, migrateVars, syncVars>>

\* NunchukStorage::CreateSingleSigner: a foreign key is registered, unused.
CreateSingleSigner(name, signer) ==
  /\ ~IsMaster(signerDb[signer.fp])
  /\ AddRemoteRet(signerDb[signer.fp].remote, signer.path)
  /\ signerDb' = [signerDb EXCEPT
                    ![signer.fp].remote =
                      AddRemote(@, name, signer.xpub, signer.path, FALSE),
                    ![signer.fp].file = TRUE]
  /\ UNCHANGED <<walletFiles, allocated>>
  /\ UNCHANGED <<ledgerVars, metaVars, appVars, lastCall, createVars, rotateVars, migrateVars, syncVars>>

\* After CreateMasterSigner for f1: an empty BIP32 table; f2 has no store yet.
InitSigners ==
  /\ signerDb = [fp \in Fingerprints |->
                   SignerStore(fp = "f1", IF fp = "f1" THEN "s1" ELSE "")]
  /\ walletFiles = {}
  /\ allocated = {}

\* No wallet store yet.
InitMeta ==
  /\ walletDb = [id \in WalletIds |-> NoStore]
  /\ createdAs = [id \in WalletIds |-> NoStore]

NextSigner ==
  \/ \E req \in Requests \cup {DuplicateRequest} : \E allow \in BOOLEAN :
       CreateWallet(req, allow)
  \/ \E id \in WalletIds : DeleteWallet(id)
  \/ \E i \in Indexes : AddXPubCall("f1", i)
  \/ \E i \in Indexes : UseIndexCall("f1", i)
  \/ \E first \in BOOLEAN : CacheMasterSignerXPub("f1", first)
  \/ CreateSingleSigner("r1", RemoteKey)

----------------------------------------------------------------------------
(* Facade operations on wallet metadata and on the app-state store *)

Names == {"n1", "n2"}

\* A wallet of one foreign key that a release with storage version 0
\* created, and the wallets created in this view.
OldRequest == [m |-> 1, n |-> 1, signers |-> <<RemoteKey>>]
WalletRequests ==
  {OldRequest,
   [m |-> 2, n |-> 2, signers |-> <<RemoteKey, MasterKey(0, "'")>>]}

\* Wallet objects a caller can hand to UpdateWallet: the id of a wallet and
\* whatever name, description and m the caller has put into the object.
WalletObjects ==
  [id : {WalletId(r) : r \in WalletRequests}, name : Names,
   description : {"d"}, m : {1, 2}]

\* UpdateWallet as a rewrite of everything the Wallet object carries.
UpdateWalletWhole(store, wallet) ==
  [SetDescription(SetName(store, wallet.name), wallet.description)
     EXCEPT !.vstr["IMMUTABLE_DATA"] = {[v EXCEPT !.m = wallet.m] : v \in @}]

\* wallet_db.SetName(..) && wallet_db.SetDescription(..)
UpdateWalletRows(store, wallet) ==
  LET named == SetName(store, wallet.name) IN
  IF PutStringRet(store.vstr, "NAME", wallet.name)
    THEN SetDescription(named, wallet.description)
    ELSE named

\* NunchukStorage::UpdateWallet; GetWalletDb throws when the file is missing.
UpdateWallet(wallet) ==
  /\ wallet.id \in walletFiles
  /\ walletDb' = [walletDb EXCEPT ![wallet.id] = UpdateWalletRows(@, wallet)]
  /\ UNCHANGED createdAs
  /\ UNCHANGED <<ledgerVars, appVars, lastCall, signerVars, createVars, rotateVars, migrateVars, syncVars>>

\* MaybeMigrate, one wallet of its loop: GetWalletDb(..).MaybeMigrate().
MigrateWalletDb(id) ==
  /\ id \in walletFiles
  /\ GetInt(walletDb[id].vint, "VERSION") # STORAGE_VER
  /\ walletDb' = [walletDb EXCEPT ![id] = WalletMaybeMigrate(@)]
  /\ UNCHANGED createdAs
  /\ UNCHANGED <<ledgerVars, appVars, lastCall, signerVars, createVars, rotateVars, migrateVars, syncVars>>

InitOldWallet ==
  LET r == CreateWallet0([fp \in Fingerprints |->
                            SignerStore(fp = "f1",
                                        IF fp = "f1" THEN "s1" ELSE "")],
                         {}, OldRequest, FALSE)
      id == WalletId(OldRequest)
      fresh == StoreCreated([i \in WalletIds |-> NoStore], r.ret, OldRequest,
                            "n1", "")
  IN  /\ signerDb = r.db
      /\ walletFiles = r.files
      /\ allocated = r.alloc
      /\ walletDb = [fresh EXCEPT ![id].vint = PutInt(@, "VERSION", 0)]
      /\ createdAs = CreatedAs([i \in WalletIds |-> NoStore], r.ret,
                               OldRequest, fresh)

----------------------------------------------------------------------------
(* NunchukAppStateDb *)

MaxTip == 2
SelectedWallets == {"", "w1", "w2"}

\* The call record kept for PutString / PutInt.
PutRecord(table, key, value, ret) ==
  [called |-> TRUE, had |-> table[key] # NoRow, same |-> table[key] = {value},
   ret |-> ret]

\* NunchukAppStateDb::SetSelectedWallet
SetSelectedWallet(value) ==
  /\ appState' = [appState EXCEPT !.vstr =
                    PutString(@, "SELECTED_WALLET", value)]
  /\ lastPut' = PutRecord(appState.vstr, "SELECTED_WALLET", value,
                          PutStringRet(appState.vstr, "SELECTED_WALLET", value))
  /\ UNCHANGED <<ledgerVars, metaVars, lastCall, signerVars, createVars, rotateVars, migrateVars, syncVars>>

\* NunchukAppStateDb::SetChainTip
SetChainTip(value) ==
  /\ appState' = [appState EXCEPT !.vint = PutInt(@, "CHAIN_TIP", value)]
  /\ lastPut' = PutRecord(appState.vint, "CHAIN_TIP", value,
                          PutIntRet(appState.vint, "CHAIN_TIP", value))
  /\ UNCHANGED <<ledgerVars, metaVars, lastCall, signerVars, createVars, rotateVars, migrateVars, syncVars>>

\* NunchukAppStateDb::SetStorageVersion
SetStorageVersion(value) ==
  /\ appState' = [appState EXCEPT !.vint = PutInt(@, "VERSION", value)]
  /\ lastPut' = PutRecord(appState.vint, "VERSION", value,
                          PutIntRet(appState.vint, "VERSION", value))
  /\ UNCHANGED <<ledgerVars, metaVars, lastCall, signerVars, createVars, rotateVars, migrateVars, syncVars>>

\* After NunchukAppStateDb::Init: CreateTable has stored the version.
InitApp ==
  /\ appState = [vstr |-> [SELECTED_WALLET |-> NoRow],
                 vint |-> [CHAIN_TIP |-> NoRow, VERSION |-> {STORAGE_VER},
                           LAST_SYNC_TS |-> NoRow]]
  /\ lastPut = [called |-> FALSE, had |-> FALSE, same |-> FALSE,
                ret |-> FALSE]

NextAppState ==
  \/ \E value \in SelectedWallets : SetSelectedWallet(value)
  \/ \E value \in 0..MaxTip : SetChainTip(value)
  \/ \E value \in 0..STORAGE_VER : SetStorageVersion(value)

\* Wallet stores created, initialized again and deleted.
InitNames == {"n1", "n2", "n3"}
NextInit ==
  \/ \E req \in WalletRequests : \E allow \in BOOLEAN :
       CreateWallet(req, allow)
  \/ \E id \in WalletIds : \E name \in InitNames :
       \E req \in WalletRequests : InitWalletCall(id, name, req)
  \/ \E id \in WalletIds : DeleteWallet(id)
----------------------------------------------------------------------------
(* NunchukSignerDb: names, health checks and Remote entries; the facade
   operations over them *)

MaxClock == 1       \* std::time(0) readings: 1..MaxClock

\* The names a caller renames a master signer and a Remote entry to.
SignerNames == {"s2"}
RemoteNames == {"r2"}
RemotePaths == {RemoteKey.path}

\* InitSigner as the creation of a new store file.
InitSignerFresh(sd, name, mnemonic) ==
  [file |-> TRUE, master |-> TRUE, name |-> name, mnemonic |-> mnemonic,
   last_health_check |-> sd.last_health_check, bip32 |-> <<>>, remote |-> <<>>]

\* NunchukSignerDb::InitSigner: CreateTable, CREATE TABLE IF NOT EXISTS
\* BIP32, and the NAME, FINGERPRINT, MNEMONIC and device keys.
InitSigner(sd, name, mnemonic) ==
  [sd EXCEPT !.file = TRUE, !.master = TRUE, !.name = name,
             !.mnemonic = mnemonic]

\* NunchukSignerDb::IsSoftware
IsSoftware(sd) == sd.mnemonic # ""

\* NunchukSignerDb::DeleteSigner and the removal of the file.
DeleteSigner(sd) == SignerStore(FALSE, "")

\* NunchukSignerDb::GetRemoteSigner: the entry at path, as the set of what
\* the SELECT returns (empty: SIGNER_NOT_FOUND is thrown).
GetRemoteSigner(rows, path) ==
  {[path |-> rows[i].path, xpub |-> rows[i].xpub, name |-> rows[i].name,
    last_health_check |-> rows[i].last_health_check,
    used |-> rows[i].used = 1] : i \in {j \in DOMAIN rows : rows[j].path = path}}

\* DELETE FROM REMOTE WHERE PATH = ? with the USED condition left out.
DeleteRemoteSignerAny(rows, path) ==
  SelectSeq(rows, LAMBDA r : r.path # path)

\* NunchukSignerDb::DeleteRemoteSigner: DELETE .. WHERE PATH = ? AND USED = -1
DeleteRemoteSignerRows(rows, path) ==
  SelectSeq(rows, LAMBDA r : ~(r.path = path /\ r.used = -1))
DeleteRemoteSignerRet(rows, path) ==
  \E i \in DOMAIN rows : rows[i].path = path /\ rows[i].used = -1

\* NunchukSignerDb::SetRemoteName / SetRemoteLastHealthCheck
SetRemoteName(rows, path, value) ==
  [i \in DOMAIN rows |->
     IF rows[i].path = path THEN [rows[i] EXCEPT !.name = value] ELSE rows[i]]
SetRemoteLastHealthCheck(rows, path, value) ==
  [i \in DOMAIN rows |->
     IF rows[i].path = path THEN [rows[i] EXCEPT !.last_health_check = value]
     ELSE rows[i]]
SetRemoteRet(rows, path) == HasPath(rows, path)

\* The frame of a facade call that writes one signer store.
SignerStoreOnly ==
  /\ UNCHANGED <<walletFiles, allocated>>
  /\ UNCHANGED <<ledgerVars, metaVars, appVars, lastCall, createVars, rotateVars, migrateVars, syncVars>>

\* NunchukStorage::CreateMasterSigner, as it writes the store of fp.
CreateMasterSignerFor(fp, name) ==
  /\ signerDb' = [signerDb EXCEPT ![fp] = InitSigner(@, name, "")]
  /\ SignerStoreOnly

\* NunchukStorage::CreateMasterSigner with the mnemonic of a software signer.
CreateSoftwareSigner(fp, name, mnemonic) ==
  /\ signerDb' = [signerDb EXCEPT ![fp] = InitSigner(@, name, mnemonic)]
  /\ SignerStoreOnly

\* NunchukStorage::UpdateMasterSigner; GetSignerDb throws without a file.
UpdateMasterSigner(fp, name) ==
  /\ signerDb[fp].file
  /\ signerDb' = [signerDb EXCEPT ![fp].name = name]
  /\ SignerStoreOnly

\* NunchukStorage::SetHealthCheckSuccess(chain, mastersigner_id)
SetHealthCheckSuccessMaster(fp, now) ==
  /\ signerDb[fp].file
  /\ signerDb' = [signerDb EXCEPT ![fp].last_health_check = now]
  /\ SignerStoreOnly

\* NunchukStorage::SetHealthCheckSuccess(chain, signer)
SetHealthCheckSuccessRemote(fp, path, now) ==
  /\ signerDb[fp].file
  /\ signerDb' = [signerDb EXCEPT ![fp].remote =
                    SetRemoteLastHealthCheck(@, path, now)]
  /\ SignerStoreOnly

\* NunchukStorage::UpdateRemoteSigner
UpdateRemoteSigner(fp, path, name) ==
  /\ signerDb[fp].file
  /\ signerDb' = [signerDb EXCEPT ![fp].remote = SetRemoteName(@, path, name)]
  /\ SignerStoreOnly

\* NunchukStorage::DeleteRemoteSigner
DeleteRemoteSigner(fp, path) ==
  /\ signerDb[fp].file
  /\ signerDb' = [signerDb EXCEPT ![fp].remote =
                    DeleteRemoteSignerRows(@, path)]
  /\ lastCall' = [op |-> "DeleteRemoteSigner", fp |-> fp, path |-> path,
                  wasUsed |-> \E r \in GetRemoteSigner(signerDb[fp].remote, path) :
                                r.used,
                  ret |-> DeleteRemoteSignerRet(signerDb[fp].remote, path)]
  /\ UNCHANGED <<walletFiles, allocated>>
  /\ UNCHANGED <<ledgerVars, metaVars, appVars, createVars, rotateVars, migrateVars, syncVars>>

\* NunchukStorage::DeleteMasterSigner
DeleteMasterSigner(fp) ==
  /\ signerDb[fp].file
  /\ signerDb' = [signerDb EXCEPT ![fp] = DeleteSigner(@)]
  /\ SignerStoreOnly

\* NunchukStorage::GetWallet, one turn of its loop: the name and the last
\* health check of a slot, read from the signer store of its fingerprint.
StorageGetSlot(signer, sd) ==
  IF IsMaster(sd)
    THEN [found |-> TRUE, name |-> sd.name,
          last_health_check |-> sd.last_health_check]
  ELSE IF GetRemoteSigner(sd.remote, signer.path) # {}
    THEN LET remote == CHOOSE r \in GetRemoteSigner(sd.remote, signer.path) : TRUE
         IN  [found |-> TRUE, name |-> remote.name,
              last_health_check |-> remote.last_health_check]
  ELSE [found |-> FALSE, name |-> signer.name,
        last_health_check |-> signer.last_health_check]

\* NunchukStorage::GetWallet(chain, id, false): the slots, and whether the
\* call throws SIGNER_NOT_FOUND.
StorageGetWallet(store, db) ==
  LET slots == [i \in DOMAIN GetSigners(store) |->
                  StorageGetSlot(GetSigners(store)[i],
                                 db[GetSigners(store)[i].fp])]
  IN  [throws |-> \E i \in DOMAIN slots : ~slots[i].found, signers |-> slots]

\* NunchukStorage::GetWallet(chain, id, true) writes the Remote entry of
\* every slot whose entry is missing, as used.
RECURSIVE CreateMissing(_, _)
CreateMissing(db, signers) ==
  IF signers = <<>> THEN db
  ELSE LET s == Head(signers)
           opened == [db EXCEPT ![s.fp].file = TRUE]
       IN  CreateMissing(
             IF StorageGetSlot(s, opened[s.fp]).found THEN opened
             ELSE [opened EXCEPT ![s.fp].remote =
                     AddRemote(@, s.name, s.xpub, s.path, TRUE)],
             Tail(signers))

GetWalletCreate(id) ==
  /\ id \in walletFiles
  /\ signerDb' = CreateMissing(signerDb, GetSigners(walletDb[id]))
  /\ SignerStoreOnly

NextRemote ==
  \/ \E req \in WalletRequests : CreateWallet(req, FALSE)
  \/ CreateSingleSigner("r1", RemoteKey)
  \/ \E fp \in Fingerprints : \E name \in SignerNames : CreateMasterSignerFor(fp, name)
  \/ \E fp \in Fingerprints : \E name \in SignerNames : UpdateMasterSigner(fp, name)
  \/ \E fp \in Fingerprints : \E now \in 1..MaxClock :
       SetHealthCheckSuccessMaster(fp, now)
  \/ \E fp \in Fingerprints : \E path \in RemotePaths : \E now \in 1..MaxClock :
       SetHealthCheckSuccessRemote(fp, path, now)
  \/ \E fp \in Fingerprints : \E path \in RemotePaths : \E name \in RemoteNames :
       UpdateRemoteSigner(fp, path, name)
  \/ \E fp \in Fingerprints : \E path \in RemotePaths : DeleteRemoteSigner(fp, path)
  \/ \E fp \in Fingerprints : DeleteMasterSigner(fp)
  \/ \E id \in WalletIds : GetWalletCreate(id)

----------------------------------------------------------------------------
(* NunchukStorage::SyncWithBackup *)

MaxTs == 2          \* backup timestamps: 1..MaxTs

\* NunchukAppStateDb::GetLastSyncTs / SetLastSyncTs: the LAST_SYNC_TS key of
\* the app-state store, read and written like the other integer keys.
GetLastSyncTs(app) == GetInt(app.vint, "LAST_SYNC_TS")
SetLastSyncTs(app, value) ==
  [app EXCEPT !.vint = PutInt(@, "LAST_SYNC_TS", value)]
SetLastSyncTsRet(app, value) == PutIntRet(app.vint, "LAST_SYNC_TS", value)

\* Wallet records of a backup: [id, req, name], req standing for what
\* ParseDescriptors reads from the record's descriptor; the id of a record
\* written by ExportBackup is the id of its descriptor.
BackupWallets ==
  {[id |-> WalletId(r), req |-> r, name |-> "n2"] : r \in WalletRequests}

\* Signer records of a backup: the foreign signer with its Remote entry.
BackupSigners ==
  {[id |-> "f2", name |-> "s2", last_health_check |-> 1, bip32 |-> <<>>,
    remote |-> <<[name |-> "r2", xpub |-> RemoteKey.xpub,
                  path |-> RemoteKey.path, last_health_check |-> 1]>>]}

\* The record ExportBackup writes for the master signer f1: a signer record
\* carries no mnemonic.
BackupMaster ==
  [id |-> "f1", name |-> "s1", last_health_check |-> 0, bip32 |-> <<>>,
   remote |-> <<>>]

\* Documents that list the master signer, alone or before the foreign one.
BackupDocumentsAll ==
  [ts : 1..MaxTs,
   signers : {<<>>, <<BackupMaster>>}
               \cup {<<BackupMaster, s>> : s \in BackupSigners},
   wallet : BackupWallets]

\* The documents handed to SyncWithBackup: one chain's part and the ts.
BackupDocuments ==
  [ts : 1..MaxTs, signers : {<<>>} \cup {<<s>> : s \in BackupSigners},
   wallet : BackupWallets]

\* importChain, the bip32 and remote records of one signer record.
RECURSIVE ImportXPubs(_, _)
ImportXPubs(rows, records) ==
  IF records = <<>> THEN rows
  ELSE ImportXPubs(AddXPub(rows, Head(records).path, Head(records).xpub,
                           GetBip32Type(Head(records).path[1])),
                   Tail(records))

\* AddRemote throws SQL_ERROR for a path the store holds already (the plain
\* INSERT fails and SQLCHECK(sqlite3_finalize(stmt)) throws): the loop over
\* the remote records ends there, and so does the import.
RECURSIVE ImportRemotes(_, _)
ImportRemotes(rows, records) ==
  IF records = <<>> \/ HasPath(rows, Head(records).path) THEN rows
  ELSE ImportRemotes(
         SetRemoteLastHealthCheck(
           AddRemote(rows, Head(records).name, Head(records).xpub,
                     Head(records).path, FALSE),
           Head(records).path, Head(records).last_health_check),
         Tail(records))

RECURSIVE ImportRemotesThrow(_, _)
ImportRemotesThrow(rows, records) ==
  /\ records # <<>>
  /\ \/ HasPath(rows, Head(records).path)
     \/ ImportRemotesThrow(AddRemote(rows, Head(records).name,
                                     Head(records).xpub, Head(records).path,
                                     FALSE),
                           Tail(records))

\* One signer record: InitSigner with an empty mnemonic, the last health
\* check, the bip32 records, the remote records.
ImportSigner(sd, signer) ==
  [InitSigner(sd, signer.name, "") EXCEPT
     !.last_health_check = signer.last_health_check,
     !.bip32 = ImportXPubs(@, signer.bip32),
     !.remote = ImportRemotes(@, signer.remote)]

\* importChain, the loop over the signer records, up to the record whose
\* import throws.
RECURSIVE ImportSigners(_, _)
ImportSigners(db, signers) ==
  IF signers = <<>> THEN db
  ELSE LET signer == Head(signers)
           after == [db EXCEPT ![signer.id] = ImportSigner(@, signer)]
       IN  IF ImportRemotesThrow(db[signer.id].remote, signer.remote)
             THEN after
             ELSE ImportSigners(after, Tail(signers))

RECURSIVE ImportSignersThrow(_, _)
ImportSignersThrow(db, signers) ==
  /\ signers # <<>>
  /\ \/ ImportRemotesThrow(db[Head(signers).id].remote, Head(signers).remote)
     \/ ImportSignersThrow([db EXCEPT ![Head(signers).id] =
                                        ImportSigner(@, Head(signers))],
                           Tail(signers))

\* The stale test with >= in place of >.
IsOldBackupOrSame(lastSyncTs, ts) == lastSyncTs >= ts

\* if (lastSyncTs > ts) return false;  // old backup
IsOldBackup(lastSyncTs, ts) == lastSyncTs > ts

\* The call record: what the call was given, found, changed and returned.
BackupCall(doc, ret, changed, threw) ==
  [op |-> "SyncWithBackup", ts |-> doc.ts,
   lastSyncTs |-> GetLastSyncTs(appState), ret |-> ret, changed |-> changed,
   threw |-> threw]

\* NunchukStorage::SyncWithBackup. A wallet whose file exists is renamed,
\* any other is created with allow_used_signer = true.  An exception of the
\* signer import or of CreateWallet0 leaves the call before SetLastSyncTs,
\* with what was written so far.
SyncWithBackup(doc) ==
  LET wallet == doc.wallet
      db == ImportSigners(signerDb, doc.signers)
      r == CreateWallet0(db, walletFiles, wallet.req, TRUE)
      threw == \/ ImportSignersThrow(signerDb, doc.signers)
               \/ wallet.id \notin walletFiles /\ r.ret # "OK"
  IN  IF IsOldBackup(GetLastSyncTs(appState), doc.ts)
        THEN /\ lastCall' = BackupCall(doc, FALSE, FALSE, FALSE)
             /\ UNCHANGED <<ledgerVars, metaVars, appVars, signerVars, createVars, rotateVars, migrateVars, syncVars>>
        ELSE /\ IF ImportSignersThrow(signerDb, doc.signers)
                  THEN /\ signerDb' = db
                       /\ UNCHANGED <<walletFiles, allocated, walletDb, createdAs>>
                  ELSE IF wallet.id \in walletFiles
                  THEN /\ signerDb' = db
                       /\ walletDb' = [walletDb EXCEPT ![wallet.id] =
                                         SetDescription(SetName(@, wallet.name),
                                                        "b")]
                       /\ UNCHANGED <<walletFiles, allocated, createdAs>>
                  ELSE /\ signerDb' = r.db
                       /\ walletFiles' = r.files
                       /\ allocated' = allocated \cup r.alloc
                       /\ walletDb' = StoreCreated(walletDb, r.ret, wallet.req,
                                                   wallet.name, "b")
                       /\ createdAs' = CreatedAs(createdAs, r.ret, wallet.req,
                                                 walletDb')
             /\ appState' = IF threw THEN appState
                            ELSE SetLastSyncTs(appState, doc.ts)
             /\ lastCall' = BackupCall(doc,
                                       ~threw /\ SetLastSyncTsRet(appState, doc.ts),
                                       <<signerDb', walletDb', walletFiles'>> #
                                         <<signerDb, walletDb, walletFiles>>,
                                       threw)
             /\ UNCHANGED lastPut
             /\ UNCHANGED <<ledgerVars, createVars, rotateVars, migrateVars, syncVars>>

NextWallet ==
  \/ \E req \in WalletRequests : \E allow \in BOOLEAN : CreateWallet(req, allow)
  \/ \E id \in WalletIds : DeleteWallet(id)
  \/ \E wallet \in WalletObjects : UpdateWallet(wallet)
  \/ \E doc \in BackupDocuments : SyncWithBackup(doc)
  \/ \E id \in WalletIds : MigrateWalletDb(id)
  \/ AddAddress("a1")
  \/ UseAddress("a1")
  \/ InsertTransaction("t1", 0)

\* Software signers and backup imports.
NextBackup ==
  \/ \E fp \in Fingerprints : CreateSoftwareSigner(fp, "s1", "seed")
  \/ \E doc \in BackupDocumentsAll : SyncWithBackup(doc)
  \/ \E req \in WalletRequests : \E allow \in BOOLEAN : CreateWallet(req, allow)
  \/ \E id \in WalletIds : DeleteWallet(id)
----------------------------------------------------------------------------
(* NunchukStorage::CreateWallet called from two threads *)

Threads == {"T1", "T2"}

\* boost::unique_lock<boost::shared_mutex> lock(access_), taken without
\* waiting for the holder.
UniqueLockBarging(holder) == TRUE
\* boost::unique_lock<boost::shared_mutex> lock(access_) can be taken.
UniqueLockFree(holder) == holder = "free"

InCreateWallet0(t) == cw[t].pc \in {"args", "signers", "exists", "init"}

\* The call returns or throws: the lock goes with the frame.
CwReturn(t, ret) ==
  /\ cw' = [cw EXCEPT ![t].pc = "done", ![t].ret = ret]
  /\ access_' = "free"

\* A thread calls CreateWallet; both threads ask for the same wallet id.
CwCall(t, req, allow) ==
  /\ cw[t].pc = "idle"
  /\ \A u \in Threads \ {t} :
       cw[u].pc # "idle" => WalletId(cw[u].req) = WalletId(req)
  /\ cw' = [cw EXCEPT ![t] = [pc |-> "lock", req |-> req, allow |-> allow,
                              i |-> 1, ret |-> ""]]
  /\ UNCHANGED <<access_, initLog, signerVars>>
  /\ UNCHANGED <<ledgerVars, metaVars, appVars, lastCall, rotateVars, migrateVars, syncVars>>

CwLock(t) ==
  /\ cw[t].pc = "lock"
  /\ UniqueLockFree(access_)
  /\ access_' = t
  /\ cw' = [cw EXCEPT ![t].pc = "args"]
  /\ UNCHANGED <<initLog, signerVars>>
  /\ UNCHANGED <<ledgerVars, metaVars, appVars, lastCall, rotateVars, migrateVars, syncVars>>

\* m > n, n # signers.size()
CwArgs(t) ==
  /\ cw[t].pc = "args"
  /\ IF cw[t].req.m > cw[t].req.n \/ cw[t].req.n # Len(cw[t].req.signers)
       THEN CwReturn(t, "INVALID_PARAMETER")
       ELSE cw' = [cw EXCEPT ![t].pc = "signers"] /\ UNCHANGED access_
  /\ UNCHANGED <<initLog, signerVars>>
  /\ UNCHANGED <<ledgerVars, metaVars, appVars, lastCall, rotateVars, migrateVars, syncVars>>

\* One turn of the loop over the signers.
CwSigner(t) ==
  /\ cw[t].pc = "signers"
  /\ IF cw[t].i > Len(cw[t].req.signers)
       THEN /\ cw' = [cw EXCEPT ![t].pc = "exists"]
            /\ UNCHANGED <<access_, signerDb, allocated>>
       ELSE LET r == SignerStep(signerDb, cw[t].req.signers[cw[t].i],
                                WalletTypeOf(cw[t].req.n), cw[t].allow)
            IN  /\ signerDb' = r.db
                /\ allocated' = allocated \cup r.alloc
                /\ IF r.err # ""
                     THEN CwReturn(t, r.err)
                     ELSE /\ cw' = [cw EXCEPT ![t].i = @ + 1]
                          /\ UNCHANGED access_
  /\ UNCHANGED <<initLog, walletFiles>>
  /\ UNCHANGED <<ledgerVars, metaVars, appVars, lastCall, rotateVars, migrateVars, syncVars>>

\* fs::exists(wallet_file)
CwExists(t) ==
  /\ cw[t].pc = "exists"
  /\ IF WalletId(cw[t].req) \in walletFiles
       THEN CwReturn(t, "WALLET_EXISTED")
       ELSE cw' = [cw EXCEPT ![t].pc = "init"] /\ UNCHANGED access_
  /\ UNCHANGED <<initLog, signerVars>>
  /\ UNCHANGED <<ledgerVars, metaVars, appVars, lastCall, rotateVars, migrateVars, syncVars>>

\* The wallet store is opened (created) and InitWallet writes it.
CwInit(t) ==
  /\ cw[t].pc = "init"
  /\ walletFiles' = walletFiles \cup {WalletId(cw[t].req)}
  /\ initLog' = Append(initLog, t)
  /\ CwReturn(t, "OK")
  /\ UNCHANGED <<signerDb, allocated>>
  /\ UNCHANGED <<ledgerVars, metaVars, appVars, lastCall, rotateVars, migrateVars, syncVars>>

InitCreate ==
  /\ access_ = "free"
  /\ cw = [t \in Threads |->
             [pc |-> "idle", req |-> [m |-> 0, n |-> 0, signers |-> <<>>],
              allow |-> FALSE, i |-> 1, ret |-> ""]]
  /\ initLog = <<>>

\* Master signer f1 with every multisig index cached and unused.
RECURSIVE CachedUpTo(_)
CachedUpTo(i) ==
  IF i < 0 THEN <<>>
  ELSE AddXPub(CachedUpTo(i - 1), GetBip32Path("multi", i),
               XpubAt("f1", <<"multi", i>>), GetBip32Type("multi"))

InitCachedSigners ==
  /\ signerDb = [fp \in Fingerprints |->
                   [SignerStore(fp = "f1", IF fp = "f1" THEN "s1" ELSE "")
                      EXCEPT !.bip32 = IF fp = "f1" THEN CachedUpTo(MaxIndex)
                                       ELSE <<>>]]
  /\ walletFiles = {}
  /\ allocated = {}

NextCreate ==
  \/ \E t \in Threads : \E req \in Requests : \E allow \in BOOLEAN :
       CwCall(t, req, allow)
  \/ \E t \in Threads : CwLock(t)
  \/ \E t \in Threads : CwArgs(t)
  \/ \E t \in Threads : CwSigner(t)
  \/ \E t \in Threads : CwExists(t)
  \/ \E t \in Threads : CwInit(t)

----------------------------------------------------------------------------
(* NunchukStorage::SetPassphrase *)

MaxRotations == 2   \* SetPassphrase calls in one behaviour

Chains == <<"MAIN", "TESTNET">>
Passphrases == {"", "p", "q"}
Absent == "absent"
WalletStores == <<"w1", "w2">>
SignerStores == <<"s1">>
StoreIds == {"w1", "w2", "s1", "room"}

\* ListWallets0 / ListMasterSigners0: the stores of the directory, in order.
ListStores(keys, ids) == SelectSeq(ids, LAMBDA id : keys[id] # Absent)

\* GetWalletDb / GetSignerDb open the store with passphrase_; GetRoomDb
\* creates the room store under passphrase_ when it is missing.
Opens(keys, id, pass) ==
  IF id = "room" THEN keys[id] \in {Absent, pass} ELSE keys[id] = pass

\* An entity operation throws and the exception is swallowed: the rotation
\* goes on to the assignment.
AfterThrowSwallowed(frame) == [frame EXCEPT !.pc = "assign", !.failed = TRUE]
\* An entity operation throws: the exception leaves SetPassphrase.
AfterThrow(frame) == [frame EXCEPT !.pc = "aborted", !.failed = TRUE]

RotIdle == rot.pc \in {"idle", "done", "aborted"}

\* SetPassphrase(value): PASSPHRASE_ALREADY_USED, or the rotation starts.
RotCall(value) ==
  /\ RotIdle
  /\ rotations < MaxRotations
  /\ rotations' = rotations + 1
  /\ rot' = IF value = passphrase_
              THEN [rot EXCEPT !.pc = "idle", !.value = value,
                               !.old = passphrase_, !.failed = FALSE,
                               !.c = 1, !.todo = <<>>, !.wallets = <<>>]
              ELSE [pc |-> "listWallets", value |-> value, old |-> passphrase_,
                    c |-> 1, wallets |-> <<>>, todo |-> <<>>, failed |-> FALSE]
  /\ UNCHANGED <<passphrase_, storeKey>>
  /\ UNCHANGED <<ledgerVars, metaVars, appVars, lastCall, signerVars, createVars, migrateVars, syncVars>>

\* auto wallets = ListWallets(chain), under a shared lock of its own.
RotListWallets ==
  /\ rot.pc = "listWallets"
  /\ access_ = "free"
  /\ rot' = [rot EXCEPT !.pc = "listSigners",
                        !.wallets = ListStores(storeKey[Chains[rot.c]],
                                               WalletStores)]
  /\ UNCHANGED <<passphrase_, storeKey, rotations>>
  /\ UNCHANGED <<ledgerVars, metaVars, appVars, lastCall, signerVars, createVars, migrateVars, syncVars>>

\* auto signers = ListMasterSigners(chain), under a shared lock of its own.
RotListSigners ==
  /\ rot.pc = "listSigners"
  /\ access_ = "free"
  /\ rot' = [rot EXCEPT !.pc = "lock",
                        !.todo = rot.wallets
                                   \o ListStores(storeKey[Chains[rot.c]],
                                                 SignerStores)
                                   \o <<"room">>]
  /\ UNCHANGED <<passphrase_, storeKey, rotations>>
  /\ UNCHANGED <<ledgerVars, metaVars, appVars, lastCall, signerVars, createVars, migrateVars, syncVars>>

\* boost::unique_lock<boost::shared_mutex> lock(access_)
RotLock ==
  /\ rot.pc = "lock"
  /\ UniqueLockFree(access_)
  /\ access_' = "R"
  /\ rot' = [rot EXCEPT !.pc = "entities"]
  /\ UNCHANGED <<cw, initLog>>
  /\ UNCHANGED <<passphrase_, storeKey, rotations>>
  /\ UNCHANGED <<ledgerVars, metaVars, appVars, lastCall, signerVars, migrateVars, syncVars>>

\* EncryptDb / DecryptDb / ReKey of the next store; io_fails is a failure of
\* the file system or of the database.
RotEntity(io_fails) ==
  /\ rot.pc = "entities"
  /\ rot.todo # <<>>
  /\ LET id == Head(rot.todo)
         c == Chains[rot.c]
     IN  IF io_fails \/ ~Opens(storeKey[c], id, passphrase_)
           THEN /\ rot' = AfterThrow(rot)
                /\ access_' = "free"
                /\ UNCHANGED storeKey
           ELSE /\ storeKey' = [storeKey EXCEPT ![c][id] = rot.value]
                /\ rot' = [rot EXCEPT !.todo = Tail(@)]
                /\ UNCHANGED access_
  /\ UNCHANGED <<cw, initLog>>
  /\ UNCHANGED <<passphrase_, rotations>>
  /\ UNCHANGED <<ledgerVars, metaVars, appVars, lastCall, signerVars, migrateVars, syncVars>>

\* SetPassphrase(chain, value) returns; the next chain, or the assignment.
RotUnlock ==
  /\ rot.pc = "entities"
  /\ rot.todo = <<>>
  /\ access_' = "free"
  /\ rot' = IF rot.c < Len(Chains)
              THEN [rot EXCEPT !.pc = "listWallets", !.c = @ + 1]
              ELSE [rot EXCEPT !.pc = "assign"]
  /\ UNCHANGED <<cw, initLog>>
  /\ UNCHANGED <<passphrase_, storeKey, rotations>>
  /\ UNCHANGED <<ledgerVars, metaVars, appVars, lastCall, signerVars, migrateVars, syncVars>>

\* passphrase_ = value
RotAssign ==
  /\ rot.pc = "assign"
  /\ passphrase_' = rot.value
  /\ rot' = [rot EXCEPT !.pc = "done"]
  /\ UNCHANGED <<storeKey, rotations>>
  /\ UNCHANGED <<ledgerVars, metaVars, appVars, lastCall, signerVars, createVars, migrateVars, syncVars>>

\* Another thread's CreateWallet: a new wallet store, keyed by passphrase_.
CreateWalletStore(c, id) ==
  /\ UniqueLockFree(access_)
  /\ storeKey[c][id] = Absent
  /\ storeKey' = [storeKey EXCEPT ![c][id] = passphrase_]
  /\ UNCHANGED <<passphrase_, rot, rotations>>
  /\ UNCHANGED <<ledgerVars, metaVars, appVars, lastCall, signerVars, createVars, migrateVars, syncVars>>

\* Another thread's CreateMasterSigner: a new signer store.
CreateMasterSigner(c, id) ==
  /\ UniqueLockFree(access_)
  /\ storeKey[c][id] = Absent
  /\ storeKey' = [storeKey EXCEPT ![c][id] = passphrase_]
  /\ UNCHANGED <<passphrase_, rot, rotations>>
  /\ UNCHANGED <<ledgerVars, metaVars, appVars, lastCall, signerVars, createVars, migrateVars, syncVars>>

\* No passphrase; the main chain holds one wallet.
InitRotate ==
  /\ passphrase_ = ""
  /\ storeKey = [i \in {Chains[1], Chains[2]} |->
                   [id \in StoreIds |->
                      IF i = Chains[1] /\ id = "w1" THEN "" ELSE Absent]]
  /\ rot = [pc |-> "idle", value |-> "", old |-> "", c |-> 1,
            wallets |-> <<>>, todo |-> <<>>, failed |-> FALSE]
  /\ rotations = 0

NextRotate ==
  \/ \E value \in Passphrases : RotCall(value)
  \/ RotListWallets
  \/ RotListSigners
  \/ RotLock
  \/ \E io_fails \in BOOLEAN : RotEntity(io_fails)
  \/ RotUnlock
  \/ RotAssign
  \/ \E c \in {Chains[1], Chains[2]} : CreateWalletStore(c, "w2")
  \/ CreateMasterSigner(Chains[1], "s1")

----------------------------------------------------------------------------
(* NunchukStorage::MaybeMigrate *)

MigThreads == {"M1", "M2"}
MigWallets == <<"w1", "w2">>

\* std::call_once as a plain test of the flag: a caller that finds the body
\* running runs it too.
OnceUnlessDone(f) == f # "done"
\* std::call_once(flag, ..): the caller that finds the flag fresh runs the body.
OnceMayEnter(f) == f = "fresh"
\* std::call_once returns to a caller that did not run the body.
OnceMayReturn(f) == f = "done"

MigFrame(t, pc, todo) == [mig EXCEPT ![t].pc = pc, ![t].todo = todo]

MigCall(t) ==
  /\ mig[t].pc \in {"idle", "returned"}
  /\ mig' = MigFrame(t, "call_once", <<>>)
  /\ UNCHANGED <<flag, migrated, version, chainVer>>
  /\ UNCHANGED <<ledgerVars, metaVars, appVars, lastCall, signerVars, createVars, rotateVars, syncVars>>

\* The body starts: auto wallets = ListWallets(chain).
MigEnter(t) ==
  /\ mig[t].pc = "call_once"
  /\ OnceMayEnter(flag)
  /\ access_ = "free"
  /\ flag' = "active"
  /\ mig' = [mig EXCEPT ![t].pc = "lock", ![t].todo = MigWallets,
                        ![t].runs = @ + 1]
  /\ UNCHANGED <<migrated, version, chainVer>>
  /\ UNCHANGED <<ledgerVars, metaVars, appVars, lastCall, signerVars, createVars, rotateVars, syncVars>>

\* The body has run: call_once returns.
MigSkip(t) ==
  /\ mig[t].pc = "call_once"
  /\ OnceMayReturn(flag)
  /\ mig' = MigFrame(t, "returned", <<>>)
  /\ UNCHANGED <<flag, migrated, version, chainVer>>
  /\ UNCHANGED <<ledgerVars, metaVars, appVars, lastCall, signerVars, createVars, rotateVars, syncVars>>

MigLock(t) ==
  /\ mig[t].pc = "lock"
  /\ UniqueLockFree(access_)
  /\ access_' = t
  /\ mig' = MigFrame(t, "wallets", mig[t].todo)
  /\ UNCHANGED <<cw, initLog>>
  /\ UNCHANGED <<flag, migrated, version, chainVer>>
  /\ UNCHANGED <<ledgerVars, metaVars, appVars, lastCall, signerVars, rotateVars, syncVars>>

\* GetWalletDb(chain, wallet_id).MaybeMigrate() for the next wallet; after
\* the last one the lock is released.
MigWallet(t) ==
  /\ mig[t].pc = "wallets"
  /\ IF mig[t].todo = <<>>
       THEN /\ access_' = "free"
            /\ mig' = MigFrame(t, "appstate", <<>>)
            /\ UNCHANGED <<migrated, chainVer>>
       ELSE /\ migrated' = [migrated EXCEPT ![Head(mig[t].todo)] = @ + 1]
            /\ mig' = MigFrame(t, "wallets", Tail(mig[t].todo))
            /\ UNCHANGED access_
  /\ UNCHANGED <<cw, initLog>>
  /\ UNCHANGED <<flag, version, chainVer>>
  /\ UNCHANGED <<ledgerVars, metaVars, appVars, lastCall, signerVars, rotateVars, syncVars>>

\* The app-state version: current, or the signers of every wallet are
\* re-created first (versions below 3), then SetStorageVersion.
MigAppState(t) ==
  /\ mig[t].pc = "appstate"
  /\ IF version = STORAGE_VER
       THEN /\ flag' = "done"
            /\ mig' = MigFrame(t, "returned", <<>>)
       ELSE /\ mig' = MigFrame(t, "setversion",
                               IF version < 3 THEN MigWallets ELSE <<>>)
            /\ UNCHANGED flag
  /\ UNCHANGED <<migrated, version, chainVer>>
  /\ UNCHANGED <<ledgerVars, metaVars, appVars, lastCall, signerVars, createVars, rotateVars, syncVars>>

\* GetWallet(chain, wallet_id, true) for the next wallet, each under the
\* exclusive lock; then appstate.SetStorageVersion(STORAGE_VER).
MigSetVersion(t) ==
  /\ mig[t].pc = "setversion"
  /\ IF mig[t].todo # <<>>
       THEN /\ UniqueLockFree(access_)
            /\ mig' = MigFrame(t, "setversion", Tail(mig[t].todo))
            /\ UNCHANGED <<flag, version, chainVer>>
       ELSE /\ version' = STORAGE_VER
            /\ flag' = "done"
            /\ mig' = MigFrame(t, "returned", <<>>)
  /\ UNCHANGED <<migrated, chainVer>>
  /\ UNCHANGED <<ledgerVars, metaVars, appVars, lastCall, signerVars, createVars, rotateVars, syncVars>>

\* A data directory whose app-state store is at version v.
InitMigrate(v) ==
  /\ flag = "fresh"
  /\ mig = [t \in MigThreads |-> [pc |-> "idle", todo |-> <<>>, runs |-> 0]]
  /\ migrated = [w \in {MigWallets[1], MigWallets[2]} |-> 0]
  /\ version = v
  /\ chainVer = [i \in DOMAIN Chains |-> [app |-> v, wallet |-> v]]

\* Data directories of all chains, each at versions of its own.
InitChainVersions(cv) ==
  /\ flag = "fresh"
  /\ mig = [t \in MigThreads |-> [pc |-> "idle", todo |-> <<>>, runs |-> 0]]
  /\ migrated = [w \in {MigWallets[1], MigWallets[2]} |-> 0]
  /\ version = STORAGE_VER
  /\ chainVer = cv

NextMigrate ==
  \/ \E t \in MigThreads : MigCall(t)
  \/ \E t \in MigThreads : MigEnter(t)
  \/ \E t \in MigThreads : MigSkip(t)
  \/ \E t \in MigThreads : MigLock(t)
  \/ \E t \in MigThreads : MigWallet(t)
  \/ \E t \in MigThreads : MigAppState(t)
  \/ \E t \in MigThreads : MigSetVersion(t)

\* std::call_once(flag, body) on the function-static flag, for a caller
\* that no other caller runs next to.
CallOnceRuns(f) == f = "fresh"

\* The body of MaybeMigrate(chain): NunchukWalletDb::MaybeMigrate on the
\* chain's wallet store, then the app-state version.
MigrateChain(cv, i) ==
  [cv EXCEPT ![i] = [app |-> STORAGE_VER,
                     wallet |-> GetInt(WalletMaybeMigrate(
                                  [vint |-> [VERSION |-> {@.wallet}]]).vint,
                                  "VERSION")]]

\* MaybeMigrate(Chains[i]) from call to return.
MaybeMigrate(i) ==
  /\ flag \in {"fresh", "done"}
  /\ chainVer' = IF CallOnceRuns(flag) THEN MigrateChain(chainVer, i)
                 ELSE chainVer
  /\ flag' = "done"
  /\ lastCall' = [op |-> "MaybeMigrate", chain |-> i,
                  ran |-> CallOnceRuns(flag)]
  /\ UNCHANGED <<mig, migrated, version>>
  /\ UNCHANGED <<ledgerVars, metaVars, appVars, signerVars, createVars, rotateVars, syncVars>>

NextChains == \E i \in DOMAIN Chains : MaybeMigrate(i)
----------------------------------------------------------------------------
(* ElectrumSynchronizer: the status machine *)

MaxRuns == 2        \* Run() calls by the owner in one behaviour
MaxQueue == 2       \* handlers waiting in io_service_

\* What storage_->ListWallets and storage_->GetAllAddresses return.
Waiters == {"u1", "u2"}
SyncWallets == <<"w1", "w2">>
SyncAddresses == [w \in {"w1", "w2"} |->
                    IF w = "w1" THEN <<"a1", "a2">> ELSE <<"b1">>]
AllSyncWallets == {SyncWallets[i] : i \in 1..Len(SyncWallets)}
AllSyncAddresses ==
  UNION {{SyncAddresses[w][i] : i \in 1..Len(SyncAddresses[w])} :
           w \in AllSyncWallets}

\* for (i = rbegin ..): a sequence walked from its last element.
Reversed(s) == [i \in 1..Len(s) |-> s[Len(s) + 1 - i]]

\* The steps of the two nested loops of BlockchainSync, in execution order:
\* every address of a wallet, then that wallet's balance.
RECURSIVE AddressSteps(_, _)
AddressSteps(w, as) ==
  IF as = <<>> THEN <<>>
  ELSE <<[kind |-> "address", w |-> w, a |-> Head(as)]>>
         \o AddressSteps(w, Tail(as))

RECURSIVE WalletSteps(_)
WalletSteps(ws) ==
  IF ws = <<>> THEN <<>>
  ELSE AddressSteps(Head(ws), Reversed(SyncAddresses[Head(ws)]))
         \o <<[kind |-> "balance", w |-> Head(ws), a |-> ""]>>
         \o WalletSteps(Tail(ws))

PassPlan == WalletSteps(Reversed(SyncWallets))

\* The positions of the sync thread inside BlockchainSync.
PassPcs == {"sync", "header", "loop", "address", "balance"}

\* std::lock_guard<std::mutex> guard(status_mutex_) can be taken.
StatusLockFree == status_mutex_ = "free"

\* if (status_ != Status::READY && status_ != Status::SYNCING) return;
Connected(s) == s \in {"READY", "SYNCING"}

\* status_cv_.notify_all(): every thread blocked in wait() is made runnable.
NotifyNone(w) == w
NotifyAll(w) ==
  [u \in DOMAIN w |-> IF w[u].pc = "blocked" THEN [w[u] EXCEPT !.pc = "woken"]
                      ELSE w[u]]

\* Run(), under the guard: nothing when STOPPED, else CONNECTING and the
\* connect handler is posted.
RunStatus(s) == IF s = "STOPPED" THEN s ELSE "CONNECTING"
RunPosts(s, q) == IF s = "STOPPED" THEN q ELSE Append(q, "connect")
RunNotifies(s, w) == IF s = "STOPPED" THEN w ELSE NotifyAll(w)

\* The owner calls Run().
Run ==
  /\ dtor = "alive"
  /\ runCalls < MaxRuns
  /\ Len(ioQueue) < MaxQueue
  /\ StatusLockFree
  /\ runCalls' = runCalls + 1
  /\ status_' = RunStatus(status_)
  /\ ioQueue' = RunPosts(status_, ioQueue)
  /\ waiters' = RunNotifies(status_, waiters)
  /\ UNCHANGED <<status_mutex_, worker, dtor, passVars, lost, host, tip>>
  /\ UNCHANGED <<ledgerVars, metaVars, appVars, lastCall, signerVars, createVars, rotateVars, migrateVars>>

\* The sync thread takes the next posted handler.
WorkerTake ==
  /\ worker = "idle"
  /\ dtor # "destroyed"
  /\ ioQueue # <<>>
  /\ worker' = Head(ioQueue)
  /\ ioQueue' = Tail(ioQueue)
  /\ UNCHANGED <<status_, status_mutex_, dtor, runCalls, passVars, lost, host, waiters, tip>>
  /\ UNCHANGED <<ledgerVars, metaVars, appVars, lastCall, signerVars, createVars, rotateVars, migrateVars>>

\* new ElectrumClient(..) succeeds, giving a fresh connection, or throws.
WorkerConnect(ok) ==
  /\ worker = "connect"
  /\ worker' = IF ok THEN "toSyncing" ELSE "failed"
  /\ lost' = IF ok THEN FALSE ELSE lost
  /\ tip' = IF ok THEN [tip EXCEPT !.registered = FALSE] ELSE tip
  /\ UNCHANGED <<status_, status_mutex_, ioQueue, dtor, runCalls, passVars, host, waiters>>
  /\ UNCHANGED <<ledgerVars, metaVars, appVars, lastCall, signerVars, createVars, rotateVars, migrateVars>>

\* catch (...): status_ = UNINITIALIZED under the guard.
WorkerConnectFailed ==
  /\ worker = "failed"
  /\ StatusLockFree
  /\ status_' = "UNINITIALIZED"
  /\ worker' = "idle"
  /\ waiters' = NotifyAll(waiters)
  /\ UNCHANGED <<status_mutex_, ioQueue, dtor, runCalls, passVars, lost, host, tip>>
  /\ UNCHANGED <<ledgerVars, metaVars, appVars, lastCall, signerVars, createVars, rotateVars, migrateVars>>

\* if (status_ != CONNECTING) return; status_ = SYNCING
WorkerToSyncing ==
  /\ worker = "toSyncing"
  /\ StatusLockFree
  /\ IF status_ # "CONNECTING"
       THEN worker' = "idle" /\ UNCHANGED <<status_, passVars>>
       ELSE /\ worker' = "sync"
            /\ status_' = "SYNCING"
            /\ pos' = 1
            /\ done' = {}
            /\ published' = {}
  /\ waiters' = IF status_ # "CONNECTING" THEN waiters ELSE NotifyAll(waiters)
  /\ UNCHANGED <<status_mutex_, ioQueue, dtor, runCalls, lost, host, tip>>
  /\ UNCHANGED <<ledgerVars, metaVars, appVars, lastCall, signerVars, createVars, rotateVars, migrateVars>>

\* BlockchainSync: unique_lock, status test, then the header subscription.
PassEnter ==
  /\ worker = "sync"
  /\ StatusLockFree
  /\ IF Connected(status_)
       THEN worker' = "header" /\ status_mutex_' = "worker"
       ELSE worker' = "toReady" /\ UNCHANGED status_mutex_
  /\ UNCHANGED <<status_, ioQueue, dtor, runCalls, passVars, lost, host, waiters, tip>>
  /\ UNCHANGED <<ledgerVars, metaVars, appVars, lastCall, signerVars, createVars, rotateVars, migrateVars>>

\* blockchain_headers_subscribe, storage_->SetChainTip, block_listener_,
\* scripthash_add_listener, all inside the unique_lock's scope.  An exception
\* leaves BlockchainSync and is swallowed by the handler's catch (...).
PassHeader(ok) ==
  /\ worker = "header"
  /\ worker' = IF ok THEN "loop" ELSE "toReady"
  /\ status_mutex_' = "free"
  /\ tip' = [tip EXCEPT !.pc = "none"]
  /\ UNCHANGED <<status_, ioQueue, dtor, runCalls, passVars, lost, host, waiters>>
  /\ UNCHANGED <<ledgerVars, metaVars, appVars, lastCall, signerVars, createVars, rotateVars, migrateVars>>

\* The loop heads: past the last wallet the pass is over; past a wallet's
\* last address its balance is read; else the per-address unique_lock is
\* taken and the status tested.
PassNext ==
  /\ worker = "loop"
  /\ IF pos > Len(PassPlan)
       THEN worker' = "toReady" /\ UNCHANGED status_mutex_
       ELSE IF PassPlan[pos].kind = "balance"
         THEN worker' = "balance" /\ UNCHANGED status_mutex_
         ELSE /\ StatusLockFree
              /\ IF Connected(status_)
                   THEN worker' = "address" /\ status_mutex_' = "worker"
                   ELSE worker' = "toReady" /\ UNCHANGED status_mutex_
  /\ UNCHANGED <<status_, ioQueue, dtor, runCalls, passVars, lost, host, waiters, tip>>
  /\ UNCHANGED <<ledgerVars, metaVars, appVars, lastCall, signerVars, createVars, rotateVars, migrateVars>>

\* SubscribeAddress, storage_->SetUtxos, UpdateTransactions (GetTransaction,
\* InsertTransaction, UpdateTransaction) and the sleep, inside the lock's
\* scope; an exception leaves BlockchainSync.
PassAddress(ok) ==
  /\ worker = "address"
  /\ status_mutex_' = "free"
  /\ IF ok
       THEN /\ done' = done \cup {PassPlan[pos].a}
            /\ pos' = pos + 1
            /\ worker' = "loop"
       ELSE worker' = "toReady" /\ UNCHANGED <<pos, done>>
  /\ UNCHANGED <<status_, ioQueue, dtor, runCalls, published, lost, host, waiters, tip>>
  /\ UNCHANGED <<ledgerVars, metaVars, appVars, lastCall, signerVars, createVars, rotateVars, migrateVars>>

\* storage_->GetBalance and balance_listener_, outside any lock.
PassBalance(ok) ==
  /\ worker = "balance"
  /\ IF ok
       THEN /\ published' = published \cup {PassPlan[pos].w}
            /\ pos' = pos + 1
            /\ worker' = "loop"
       ELSE worker' = "toReady" /\ UNCHANGED <<pos, published>>
  /\ UNCHANGED <<status_, status_mutex_, ioQueue, dtor, runCalls, done, lost, host, waiters, tip>>
  /\ UNCHANGED <<ledgerVars, metaVars, appVars, lastCall, signerVars, createVars, rotateVars, migrateVars>>

\* if (status_ != SYNCING) return; status_ = READY
WorkerToReady ==
  /\ worker = "toReady"
  /\ StatusLockFree
  /\ IF status_ # "SYNCING"
       THEN UNCHANGED status_
       ELSE status_' = "READY"
  /\ worker' = "idle"
  /\ waiters' = IF status_ # "SYNCING" THEN waiters ELSE NotifyAll(waiters)
  /\ UNCHANGED <<status_mutex_, ioQueue, dtor, runCalls, passVars, lost, host, tip>>
  /\ UNCHANGED <<ledgerVars, metaVars, appVars, lastCall, signerVars, createVars, rotateVars, migrateVars>>

\* The server drops the connection: the client's disconnect callback posts
\* the delayed reconnect.  status_ is not touched.
Disconnect ==
  /\ dtor # "destroyed"
  /\ status_ \in {"SYNCING", "READY"}
  /\ ~lost
  /\ Len(ioQueue) < MaxQueue
  /\ ioQueue' = Append(ioQueue, "reconnect")
  /\ lost' = TRUE
  /\ UNCHANGED <<status_, status_mutex_, worker, dtor, runCalls, passVars, host, waiters, tip>>
  /\ UNCHANGED <<ledgerVars, metaVars, appVars, lastCall, signerVars, createVars, rotateVars, migrateVars>>

\* The reconnect handler: sleep, then Run() on the sync thread.
WorkerReconnect ==
  /\ worker = "reconnect"
  /\ StatusLockFree
  /\ Len(ioQueue) < MaxQueue
  /\ status_' = RunStatus(status_)
  /\ ioQueue' = RunPosts(status_, ioQueue)
  /\ worker' = "idle"
  /\ waiters' = RunNotifies(status_, waiters)
  /\ UNCHANGED <<status_mutex_, dtor, runCalls, passVars, lost, host, tip>>
  /\ UNCHANGED <<ledgerVars, metaVars, appVars, lastCall, signerVars, createVars, rotateVars, migrateVars>>

\* LookAhead on the host's thread: unique_lock, status test, then
\* SubscribeAddress, storage_->AddAddress, UpdateTransactions and
\* storage_->SetUtxos inside the lock's scope.
LookAheadEnter ==
  /\ host = "idle"
  /\ dtor = "alive"
  /\ StatusLockFree
  /\ Connected(status_)
  /\ host' = "lookahead"
  /\ status_mutex_' = "host"
  /\ UNCHANGED <<status_, ioQueue, worker, dtor, runCalls, passVars, lost, waiters, tip>>
  /\ UNCHANGED <<ledgerVars, metaVars, appVars, lastCall, signerVars, createVars, rotateVars, migrateVars>>

LookAheadReturn ==
  /\ host = "lookahead"
  /\ host' = "idle"
  /\ status_mutex_' = "free"
  /\ UNCHANGED <<status_, ioQueue, worker, dtor, runCalls, passVars, lost, waiters, tip>>
  /\ UNCHANGED <<ledgerVars, metaVars, appVars, lastCall, signerVars, createVars, rotateVars, migrateVars>>

\* WaitForReady: unique_lock, then wait(lock_, pred).  With the predicate
\* true the call returns; else the thread releases the mutex and blocks.
WaitForReady(u) ==
  /\ waiters[u].pc = "idle"
  /\ dtor = "alive"
  /\ StatusLockFree
  /\ waiters' = [waiters EXCEPT ![u] =
                   IF Connected(status_) THEN [@ EXCEPT !.pc = "returned"]
                   ELSE [pc |-> "blocked", slept |-> TRUE]]
  /\ UNCHANGED <<status_, status_mutex_, ioQueue, worker, dtor, runCalls, passVars, lost, host, tip>>
  /\ UNCHANGED <<ledgerVars, metaVars, appVars, lastCall, signerVars, createVars, rotateVars, migrateVars>>

\* A notified thread takes the mutex again and tests the predicate.
WaitWake(u) ==
  /\ waiters[u].pc = "woken"
  /\ StatusLockFree
  /\ waiters' = [waiters EXCEPT ![u].pc =
                   IF Connected(status_) THEN "returned" ELSE "blocked"]
  /\ UNCHANGED <<status_, status_mutex_, ioQueue, worker, dtor, runCalls, passVars, lost, host, tip>>
  /\ UNCHANGED <<ledgerVars, metaVars, appVars, lastCall, signerVars, createVars, rotateVars, migrateVars>>

\* condition_variable::wait may wake without a notification.
SpuriousWake(u) ==
  /\ waiters[u].pc = "blocked"
  /\ waiters' = [waiters EXCEPT ![u].pc = "woken"]
  /\ UNCHANGED <<status_, status_mutex_, ioQueue, worker, dtor, runCalls, passVars, lost, host, tip>>
  /\ UNCHANGED <<ledgerVars, metaVars, appVars, lastCall, signerVars, createVars, rotateVars, migrateVars>>

\* ~ElectrumSynchronizer takes the guard, keeps it, and sets STOPPED.
DtorStop ==
  /\ dtor = "alive"
  /\ host = "idle"
  /\ StatusLockFree
  /\ status_mutex_' = "dtor"
  /\ status_' = "STOPPED"
  /\ dtor' = "joining"
  /\ waiters' = NotifyAll(waiters)
  /\ UNCHANGED <<ioQueue, worker, runCalls, passVars, lost, host, tip>>
  /\ UNCHANGED <<ledgerVars, metaVars, appVars, lastCall, signerVars, createVars, rotateVars, migrateVars>>

\* sync_thread_.join() returns once io_service_ has run dry; the guard is
\* released when the destructor leaves.
DtorJoin ==
  /\ dtor = "joining"
  /\ worker = "idle"
  /\ ioQueue = <<>>
  /\ dtor' = "destroyed"
  /\ status_mutex_' = "free"
  /\ UNCHANGED <<status_, ioQueue, worker, runCalls, passVars, lost, host, waiters, tip>>
  /\ UNCHANGED <<ledgerVars, metaVars, appVars, lastCall, signerVars, createVars, rotateVars, migrateVars>>

InitSync ==
  /\ status_ = "UNINITIALIZED"
  /\ status_mutex_ = "free"
  /\ ioQueue = <<>>
  /\ worker = "idle"
  /\ dtor = "alive"
  /\ runCalls = 0
  /\ pos = 1
  /\ done = {}
  /\ published = {}
  /\ lost = FALSE
  /\ host = "idle"
  /\ waiters = [u \in Waiters |-> [pc |-> "idle", slept |-> FALSE]]
  /\ tip = [pc |-> "none", header |-> 0, delivered |-> 0, registered |-> FALSE]

\* The steps of the sync thread.
WorkerStep ==
  \/ WorkerTake
  \/ \E ok \in BOOLEAN : WorkerConnect(ok)
  \/ WorkerConnectFailed
  \/ WorkerToSyncing
  \/ PassEnter
  \/ \E ok \in BOOLEAN : PassHeader(ok)
  \/ PassNext
  \/ \E ok \in BOOLEAN : PassAddress(ok)
  \/ \E ok \in BOOLEAN : PassBalance(ok)
  \/ WorkerToReady
  \/ WorkerReconnect

NextSync ==
  \/ Run
  \/ WorkerStep
  \/ Disconnect
  \/ LookAheadEnter
  \/ LookAheadReturn
  \/ DtorStop
  \/ DtorJoin

\* The synchronizer with threads that wait for it to be ready.
NextWait ==
  \/ Run
  \/ WorkerStep
  \/ Disconnect
  \/ DtorStop
  \/ DtorJoin
  \/ \E u \in Waiters : WaitForReady(u)
  \/ \E u \in Waiters : WaitWake(u)
  \/ \E u \in Waiters : SpuriousWake(u)
----------------------------------------------------------------------------
(* ElectrumSynchronizer::LookAhead *)

\* app_settings_.get_chain()
AppChain == "TESTNET"

\* What blockchain.scripthash.get_history answers for an address: a value
\* that is a JSON array of [tx, height] entries, or one that is not.
Histories(a) ==
  {[is_array |-> FALSE, items |-> <<>>], [is_array |-> TRUE, items |-> <<>>]}
    \cup {[is_array |-> TRUE,
           items |-> <<[tx |-> IF a = "a1" THEN "t1" ELSE "t2", height |-> h]>>] :
            h \in 0..1}

\* The addresses the host looks ahead at.
LookAheadAddrs == {"a1"}

\* UpdateTransactions for one entry on the ledger L = [addrs, vtx, events].
HistoryEntry(L, t, h) ==
  IF HasTx(L.vtx, t)
    THEN IF NeedsPromote(TxOfRow(TxRow(L.vtx, t)).status, h)
           THEN [addrs |-> UpdateTransactionAddrs(L.addrs, L.vtx, t, h),
                 vtx |-> UpdateTransactionRows(L.vtx, t, h),
                 events |-> Fire(L.events, t, "CONFIRMED")]
           ELSE L
    ELSE LET hh == IF h <= 0 THEN 0 ELSE h IN
         [addrs |-> InsertTransactionAddrs(L.addrs, L.vtx, t, hh),
          vtx |-> InsertTransactionRows(L.vtx, t, hh),
          events |-> Fire(L.events, t, IF h <= 0 THEN "PENDING_CONFIRMATION"
                                       ELSE "CONFIRMED")]

RECURSIVE UpdateTransactions(_, _)
UpdateTransactions(L, items) ==
  IF items = <<>> THEN L
  ELSE UpdateTransactions(HistoryEntry(L, Head(items).tx, Head(items).height),
                          Tail(items))

\* if (!history.is_array() || history.empty()) return false;
HistoryFoundAlways(history) == TRUE
HistoryFound(history) == history.is_array /\ history.items # <<>>

\* The whole call on the ledger L: [ret, subscribed, ledger].  AddAddress
\* throws SQL_ERROR for an address that is in the ledger already, and the
\* statements after it do not run.
LookAheadResult(status, chain, L, address, index, internal, history, utxo) ==
  IF ~Connected(status) \/ chain # AppChain
    THEN [ret |-> FALSE, subscribed |-> FALSE, ledger |-> L]
  ELSE IF ~HistoryFound(history) \/ HasAddr(L.addrs, address)
    THEN [ret |-> FALSE, subscribed |-> TRUE, ledger |-> L]
  ELSE LET L1 == [L EXCEPT !.addrs = AddAddressRows(@, address, index, internal)]
           L2 == UpdateTransactions(L1, history.items)
       IN  [ret |-> TRUE, subscribed |-> TRUE,
            ledger |-> [L2 EXCEPT !.addrs = SetUtxosRows(@, address, utxo)]]

\* LookAhead on the host's thread, from unique_lock to return.
LookAhead(chain, address, history, utxo) ==
  LET r == LookAheadResult(status_, chain,
                           [addrs |-> addrs, vtx |-> vtx, events |-> events],
                           address, 0, AddrInternal(address), history, utxo)
  IN  /\ host = "idle"
      /\ dtor = "alive"
      /\ StatusLockFree
      /\ addrs' = r.ledger.addrs
      /\ vtx' = r.ledger.vtx
      /\ events' = r.ledger.events
      /\ lastAdd' = IF r.ret
                      THEN [called |-> TRUE, addr |-> address,
                            wasUsed |-> \E i \in DOMAIN addrs :
                                          addrs[i].addr = address /\ addrs[i].used]
                      ELSE lastAdd
      /\ lastCall' = [op |-> "LookAhead",
                      connected |-> status_ \in {"READY", "SYNCING"},
                      configured |-> chain = AppChain,
                      found |-> history.is_array /\ history.items # <<>>,
                      ret |-> r.ret, subscribed |-> r.subscribed,
                      added |-> ~HasAddr(addrs, address)
                                  /\ HasAddr(r.ledger.addrs, address),
                      changed |-> r.ledger.addrs # addrs \/ r.ledger.vtx # vtx]
      /\ UNCHANGED <<lastUse, lastSync, syncVars>>
      /\ UNCHANGED <<metaVars, appVars, signerVars, createVars, rotateVars, migrateVars>>

\* The synchronizer's status moving while the host looks ahead.
NextLookAhead ==
  \/ Run
  \/ WorkerTake
  \/ \E ok \in BOOLEAN : WorkerConnect(ok)
  \/ WorkerConnectFailed
  \/ WorkerToSyncing
  \/ PassEnter
  \/ \E ok \in BOOLEAN : PassHeader(ok)
  \/ PassNext
  \/ \E ok \in BOOLEAN : PassAddress(ok)
  \/ \E ok \in BOOLEAN : PassBalance(ok)
  \/ WorkerToReady
  \/ \E i \in 1..Len(Chains) : \E address \in LookAheadAddrs :
       \E history \in Histories(address) : \E utxo \in Snapshots(address) :
         LookAhead(Chains[i], address, history, utxo)
----------------------------------------------------------------------------
(* BlockchainSync: the header subscription, statement by statement *)

\* NunchukStorage::SetChainTip on the app-state store.
StoreChainTip(app, value) == [app EXCEPT !.vint = PutInt(@, "CHAIN_TIP", value)]
GetChainTip(app) == GetInt(app.vint, "CHAIN_TIP")

\* auto header = client_->blockchain_headers_subscribe(callback): the
\* callback is registered and the response carries the backend's tip.
HeaderSubscribe(h) ==
  /\ worker = "header"
  /\ tip.pc = "none"
  /\ tip' = [pc |-> "subscribed", header |-> h, delivered |-> h,
             registered |-> TRUE]
  /\ UNCHANGED <<status_, status_mutex_, ioQueue, worker, dtor, runCalls, passVars, lost, host, waiters>>
  /\ UNCHANGED <<ledgerVars, metaVars, appVars, lastCall, signerVars, createVars, rotateVars, migrateVars>>

\* chain_tip_ = header["height"]; storage_->SetChainTip(chain, header["height"])
HeaderStore ==
  /\ worker = "header"
  /\ tip.pc = "subscribed"
  /\ tip' = [tip EXCEPT !.pc = "stored"]
  /\ appState' = StoreChainTip(appState, tip.header)
  /\ lastPut' = PutRecord(appState.vint, "CHAIN_TIP", tip.header,
                          PutIntRet(appState.vint, "CHAIN_TIP", tip.header))
  /\ UNCHANGED <<status_, status_mutex_, ioQueue, worker, dtor, runCalls, passVars, lost, host, waiters>>
  /\ UNCHANGED <<ledgerVars, metaVars, lastCall, signerVars, createVars, rotateVars, migrateVars>>

\* The backend pushes the next header and the client runs the callback on
\* its own thread: chain_tip_ = height; storage_->SetChainTip; block_listener_.
\* The callback tests neither status_ nor status_mutex_.
HeaderPush(h) ==
  /\ tip.registered
  /\ ~lost
  /\ dtor # "destroyed"
  /\ h = tip.delivered + 1
  /\ tip' = [tip EXCEPT !.delivered = h]
  /\ appState' = StoreChainTip(appState, h)
  /\ lastPut' = PutRecord(appState.vint, "CHAIN_TIP", h,
                          PutIntRet(appState.vint, "CHAIN_TIP", h))
  /\ UNCHANGED <<status_, status_mutex_, ioQueue, worker, dtor, runCalls, passVars, lost, host, waiters>>
  /\ UNCHANGED <<ledgerVars, metaVars, lastCall, signerVars, createVars, rotateVars, migrateVars>>

\* The header step ends: normally after SetChainTip, or with an exception.
HeaderDone(ok) ==
  /\ ok => tip.pc = "stored"
  /\ PassHeader(ok)

NextTip ==
  \/ Run
  \/ WorkerTake
  \/ \E ok \in BOOLEAN : WorkerConnect(ok)
  \/ WorkerConnectFailed
  \/ WorkerToSyncing
  \/ PassEnter
  \/ \E h \in 1..MaxTip : HeaderSubscribe(h)
  \/ HeaderStore
  \/ \E h \in 1..MaxTip + 1 : HeaderPush(h)
  \/ \E ok \in BOOLEAN : HeaderDone(ok)
  \/ PassNext
  \/ \E ok \in BOOLEAN : PassAddress(ok)
  \/ \E ok \in BOOLEAN : PassBalance(ok)
  \/ WorkerToReady
  \/ WorkerReconnect
  \/ Disconnect
  \/ DtorStop
  \/ DtorJoin
----------------------------------------------------------------------------
(* Specifications *)

InitWalletStore ==
  /\ addrs = <<>>
  /\ vtx = <<>>
  /\ lastUse = [called |-> FALSE, addr |-> "", wasUsed |-> FALSE,
                present |-> FALSE, ret |-> FALSE]

\* No call recorded yet.
InitCalls == lastCall = [op |-> "none"]

InitHistory ==
  /\ events = [t \in TxIds |-> [confirmed |-> 0, pending |-> 0]]
  /\ lastSync = [n |-> 0, tx |-> "", h |-> 0, pre |-> "NONE"]
  /\ lastAdd = [called |-> FALSE, addr |-> "", wasUsed |-> FALSE]

\* A wallet whose ledger holds the receive address a1 and the change
\* address c1: t1 is received from the network, t2 and t3 are its own spends.
InitFunded ==
  /\ addrs = AddAddressRows(AddAddressRows(<<>>, "a1", 0, FALSE), "c1", 0, TRUE)
  /\ vtx = <<>>
  /\ lastUse = [called |-> FALSE, addr |-> "", wasUsed |-> FALSE,
                present |-> FALSE, ret |-> FALSE]
  /\ InitHistory

InitFacade == InitCreate /\ InitRotate /\ InitMigrate(STORAGE_VER) /\ InitSync

\* A fresh facade over an empty wallet store and empty signer stores.
InitEmpty ==
  /\ InitWalletStore /\ InitHistory /\ InitSigners /\ InitMeta /\ InitApp /\ InitCalls
  /\ InitFacade

\* A fresh facade over the funded wallet.
InitFundedWallet ==
  InitFunded /\ InitSigners /\ InitMeta /\ InitApp /\ InitCalls /\ InitFacade

\* A fresh facade whose master signers have their xpubs cached.
InitCached ==
  /\ InitWalletStore /\ InitHistory /\ InitCachedSigners /\ InitMeta /\ InitApp /\ InitCalls
  /\ InitFacade

\* A data directory written by any storage version up to the current one.
InitAnyVersion ==
  /\ InitWalletStore /\ InitHistory /\ InitSigners /\ InitMeta /\ InitApp /\ InitCalls
  /\ InitCreate /\ InitRotate /\ InitSync
  /\ \E v \in 0..STORAGE_VER : InitMigrate(v)

\* The address ledger alone, with the one received transaction t1.
NextLedger ==
  \/ \E a \in LedgerAddrs : AddAddress(a)
  \/ \E a \in LedgerAddrs : UseAddress(a)
  \/ \E a \in LedgerAddrs : \E snap \in Snapshots(a) : SetUtxos(a, snap)
  \/ \E h \in 0..MaxHeight : InsertTransaction("t1", h)
  \/ \E h \in 0..MaxHeight : UpdateTransaction("t1", h)

SpecLedger ==
  InitEmpty /\ [][NextLedger]_vars

\* The transaction ledger and the UTXO snapshots of a funded wallet.
NextUtxo ==
  \/ \E a \in LedgerAddrs : \E snap \in Snapshots(a) : SetUtxos(a, snap)
  \/ \E t \in {"t2", "t3"} : CreatePsbt(t)
  \/ \E h \in 0..MaxHeight : InsertTransaction("t1", h)
  \/ \E t \in TxIds : \E h \in -1..MaxHeight : UpdateTransaction(t, h)
  \/ \E t \in TxIds : DeleteTransaction(t)
  \/ \E old_id \in TxIds : \E new_id \in TxIds : UpdatePsbtTxId(old_id, new_id)

SpecUtxo == InitFundedWallet /\ [][NextUtxo]_vars

\* The funded wallet, either new or opened from a store that was written
\* before the EXTRA column existed and holds one record of that time: the
\* received transaction t1 or the draft t2.
InitReplace ==
  /\ addrs = AddAddressRows(AddAddressRows(<<>>, "a1", 0, FALSE), "c1", 0, TRUE)
  /\ \E r \in {<<"t1", 0>>, <<"t1", 1>>, <<"t2", -1>>} :
       vtx \in {<<>>, <<[id |-> r[1], value |-> r[1], height |-> r[2], extra |-> NullExtra]>>}
  /\ lastUse = [called |-> FALSE, addr |-> "", wasUsed |-> FALSE,
                present |-> FALSE, ret |-> FALSE]
  /\ InitHistory /\ InitSigners /\ InitMeta /\ InitApp /\ InitCalls /\ InitFacade

\* Fee bumps: drafts that name the transaction they replace.
NextReplace ==
  \/ \E t \in {"t2", "t3"} : \E r \in TxIds \ {t} : CreateReplacement(t, r)
  \/ \E h \in 0..MaxHeight : InsertTransaction("t1", h)
  \/ \E t \in TxIds : \E h \in 0..MaxHeight : UpdateTransaction(t, h)
  \/ DeleteTransaction("t3")
  \/ UpdatePsbtTxId("t2", "t3")

SpecReplace == InitReplace /\ [][NextReplace]_vars

\* A draft is broadcast: its record moves from height -1 to height 0.
BroadcastDraft(t) ==
  /\ HasTx(vtx, t)
  /\ TxRow(vtx, t).height = -1
  /\ UpdateTransaction(t, 0)

\* History reconciliation against a funded wallet.
NextHistory ==
  \/ \E t \in {"t2", "t3"} : CreatePsbt(t)
  \/ \E t \in {"t2", "t3"} : BroadcastDraft(t)
  \/ \E t \in TxIds : \E h \in -1..MaxHeight : UpdateTransactionsEntry(t, h)

SpecHistory == InitFundedWallet /\ [][NextHistory]_vars

\* The signer stores and the wallet directory, one facade call at a time.
SpecSigner ==
  InitEmpty /\ [][NextSigner]_vars

\* Two threads in CreateWallet.
SpecCreate ==
  InitCached /\ [][NextCreate]_vars

\* A passphrase rotation next to other facade calls.
SpecRotate ==
  InitEmpty /\ [][NextRotate]_vars

\* Two threads in MaybeMigrate, on a data directory of any version.
SpecMigrate ==
  InitAnyVersion /\ [][NextMigrate]_vars

\* The synchronizer: owner, sync thread, client callback and destructor.
SpecSync ==
  InitEmpty /\ [][NextSync]_vars


\* A data directory with one wallet of an older release.
InitOld ==
  /\ InitWalletStore /\ InitHistory /\ InitOldWallet /\ InitApp /\ InitCalls
  /\ InitFacade

\* Wallet metadata under creation, deletion, renaming, backup import,
\* migration and ledger writes.
SpecWallet == InitOld /\ [][NextWallet]_vars

\* Backup imports into a data directory that holds software signers.
SpecBackup == InitOld /\ [][NextBackup]_vars

\* The app-state store.
SpecAppState == InitEmpty /\ [][NextAppState]_vars

\* The synchronizer with its scheduling: the sync thread takes a step that
\* is enabled again and again (it gets the mutex sooner or later), a
\* connection attempt that is made again and again succeeds at some point,
\* LookAhead returns, and join() returns once the sync thread has left
\* io_service_.run().
SpecSyncFair ==
  /\ InitEmpty /\ [][NextSync]_vars
  /\ SF_vars(WorkerStep)
  /\ SF_vars(WorkerConnect(TRUE))
  /\ WF_vars(LookAheadReturn)
  /\ WF_vars(DtorJoin)


\* Threads in WaitForReady next to the synchronizer: a thread that was
\* notified gets the mutex sooner or later, and so does the sync thread.
SpecWaitFair ==
  /\ InitEmpty /\ [][NextWait]_vars
  /\ SF_vars(WorkerStep)
  /\ WF_vars(DtorJoin)
  /\ \A u \in Waiters : SF_vars(WaitWake(u))

\* The synchronizer with the header subscription of each connection in
\* single statements, next to the client thread that delivers pushes.
SpecTip == InitEmpty /\ [][NextTip]_vars

\* Data directories of two chains, each written by any storage version.
InitChains ==
  /\ InitWalletStore /\ InitHistory /\ InitSigners /\ InitMeta /\ InitApp /\ InitCalls
  /\ InitCreate /\ InitRotate /\ InitSync
  /\ \E cv \in [DOMAIN Chains -> [app : 0..STORAGE_VER, wallet : 0..STORAGE_VER]] :
       InitChainVersions(cv)

\* MaybeMigrate called for one chain after the other in one process.
SpecChains == InitChains /\ [][NextChains]_vars

\* LookAhead calls of the host while the synchronizer connects and syncs.
SpecLookAhead == InitEmpty /\ [][NextLookAhead]_vars

\* Wallet stores that InitWallet is called on more than once.
SpecInit == InitEmpty /\ [][NextInit]_vars

\* The signer stores under renaming, health checks, upgrade to Master and
\* deletion, next to the wallets that reference them.
SpecRemote == InitEmpty /\ [][NextRemote]_vars
----------------------------------------------------------------------------
(* Claims *)

\* C1 (allocation monotonicity): once UseIndex has marked index i of a
\* bucket ALLOCATED, GetUnusedIndex for that bucket returns a value other
\* than i, after any sequence of AddXPub, UseIndex, CacheMasterSignerXPub,
\* wallet creation and wallet deletion.
C1_AllocationMonotonic ==
  \A fp \in Fingerprints : \A i \in Indexes :
    <<fp, GetBip32Path("multi", i)>> \in allocated
      => GetUnusedIndex(signerDb[fp].bip32, "multi") # i

\* Index 0 was allocated for a wallet that has since been deleted, and the
\* cache still offers a later index.
C1_Witness ==
  /\ <<"f1", GetBip32Path("multi", 0)>> \in allocated
  /\ GetUnusedIndex(signerDb["f1"].bip32, "multi") >= 1
  /\ \E k \in DOMAIN signerDb["f2"].remote : signerDb["f2"].remote[k].used = 1
  /\ walletFiles = {}

\* C2 (balance exclusion): in every wallet state, no output consumed as an
\* input by one of the wallet's own unconfirmed records (a draft at height
\* -1 or a broadcast transaction at height 0) is returned by
\* GetUnspentOutputs(true).
C2_BalanceExclusion ==
  \A i \in DOMAIN vtx :
    vtx[i].height \in {-1, 0} =>
      TxOfRow(vtx[i]).inputs
        \cap Outpoints(GetUnspentOutputs(addrs, vtx, TRUE)) = {}

\* C3 (idempotent address use): a UseAddress call on a ledger address returns
\* true when the address was unused before the call and false when it was
\* already used.
C3_UseAddressOnce ==
  (lastUse.called /\ lastUse.present) => (lastUse.ret = ~lastUse.wasUsed)

\* C4 (history reconciliation is idempotent): processing an entry (txid,
\* h > 0) whose local record is already confirmed changes no record and
\* fires no event; processing it for a record at height 0 confirms the record
\* at h and fires one CONFIRMED event; so a confirmed record has had exactly
\* one CONFIRMED event however often its entry was processed.
C4_OneConfirmedEvent ==
  \A t \in TxIds :
    /\ events[t].confirmed <= 1
    /\ (HasTx(vtx, t) /\ TxRow(vtx, t).height > 0) => events[t].confirmed = 1

C4_EntryStep ==
  lastSync'.n # lastSync.n =>
    LET t == lastSync'.tx
        h == lastSync'.h
    IN  /\ (HasTx(vtx, t) /\ TxOfRow(TxRow(vtx, t)).status = "CONFIRMED" /\ h > 0)
             => (vtx' = vtx /\ addrs' = addrs /\ events' = events)
        /\ (HasTx(vtx, t) /\ TxRow(vtx, t).height = 0 /\ h > 0)
             => /\ TxRow(vtx', t).height = h
                /\ events'[t].confirmed = events[t].confirmed + 1

C5_StoppedTerminal ==
  [][/\ (status_ = "STOPPED" => status_' = "STOPPED")
     /\ (status_' # status_ /\ status_' \in {"UNINITIALIZED", "SYNCING"}
           => status_ = "CONNECTING")
     /\ (status_' # status_ /\ status_' = "READY" => status_ = "SYNCING")]_vars

\* C6 (concurrent CreateWallet for one wallet id): the two calls never run
\* CreateWallet0 at the same time, at most one of them succeeds and
\* initialises the wallet store, and once one has succeeded the other ends
\* with WALLET_EXISTED or SIGNER_USED.
C6_OneCreator ==
  LET ok == {t \in Threads : cw[t].ret = "OK"} IN
  /\ Cardinality({t \in Threads : InCreateWallet0(t)}) <= 1
  /\ Cardinality(ok) <= 1
  /\ Len(initLog) <= 1
  /\ \A t \in Threads :
       (ok # {} /\ t \notin ok /\ cw[t].pc = "done")
         => cw[t].ret \in {"WALLET_EXISTED", "SIGNER_USED"}

\* Both calls are over: one created the wallet, the other was refused.
C6_Witness ==
  /\ \A t \in Threads : cw[t].pc = "done"
  /\ \E t \in Threads : cw[t].ret = "OK"
  /\ \E t \in Threads : cw[t].ret \in {"WALLET_EXISTED", "SIGNER_USED"}
  /\ Len(initLog) = 1

\* C7 (a refused CreateWallet changes nothing): a CreateWallet call without
\* the override flag that ends with SIGNER_USED or WALLET_EXISTED leaves the
\* signer stores and the wallet directory as they were.
C7_RefusedCreateIsClean ==
  [][\A req \in Requests :
       (/\ CreateWallet(req, FALSE)
        /\ CreateWallet0(signerDb, walletFiles, req, FALSE).ret
             \in {"SIGNER_USED", "WALLET_EXISTED"})
         => (signerDb' = signerDb /\ walletFiles' = walletFiles)]_vars

\* C8 (the passphrase field follows a complete rotation only): when an
\* entity operation has failed the field holds the value it had before the
\* call, and the field differs from that value only after every entity of
\* both chains was processed.
C8_FieldAfterCompleteRotation ==
  /\ rot.failed => passphrase_ = rot.old
  /\ passphrase_ # rot.old
       => (rot.pc = "done" /\ ~rot.failed /\ rot.c = Len(Chains)
             /\ rot.todo = <<>>)

\* A rotation failed after it had re-keyed a store of the main chain.
C8_Witness ==
  /\ rot.pc = "aborted"
  /\ rot.failed
  /\ rot.value # rot.old
  /\ \E id \in StoreIds : storeKey[Chains[1]][id] = rot.value
  /\ passphrase_ = rot.old

\* C9 (rotation is one critical section): after a rotation has completed,
\* every store of both chains opens under the new passphrase.
C9_AllStoresUnderNewKey ==
  rot.pc = "done" =>
    \A i \in DOMAIN Chains : \A id \in StoreIds :
      storeKey[Chains[i]][id] \in {Absent, passphrase_}

C11_NoStorageCallUnderStatusMutex ==
  /\ worker \in {"header", "address", "balance"} => status_mutex_ # "worker"
  /\ host = "lookahead" => status_mutex_ # "host"

\* C12 (stopping terminates): when the destructor has set STOPPED while the
\* catch-up pass is in flight, the destructor eventually returns.
C12_StopTerminates ==
  (dtor = "joining" /\ worker \in PassPcs) ~> (dtor = "destroyed")

\* C13 (reconnect keeps retrying): once the server has dropped the
\* connection, a fresh connection is eventually up with status READY, unless
\* the synchronizer is stopped.
C13_RetriesUntilReady ==
  lost ~> ((~lost /\ status_ = "READY") \/ status_ = "STOPPED")

\* C14 (mid-sync disconnect): when the connection was dropped while the
\* status is SYNCING, the next status value observed is CONNECTING (or
\* STOPPED when the synchronizer is destroyed).
C14_SyncingThenConnecting ==
  [][(lost /\ status_ = "SYNCING" /\ status_' # status_)
       => status_' \in {"CONNECTING", "STOPPED"}]_vars

\* C15 (READY means caught up): whenever the status is READY, the pass of
\* the current connection has subscribed, stored and reconciled every address
\* of every wallet and has published every wallet's balance.
C15_ReadyAfterFullPass ==
  status_ = "READY" =>
    /\ done = AllSyncAddresses
    /\ published = AllSyncWallets

\* C16 (wallet immutability): for every wallet whose store exists, GetWallet
\* returns the id, m, n, address type, escrow flag and signer rows that it
\* returned right after InitWallet, whatever UpdateWallet, backup import,
\* migration and ledger writes have happened since.
C16_WalletImmutable ==
  \A id \in WalletIds :
    walletDb[id] # NoStore => GetWallet(id, walletDb[id]) = createdAs[id]

\* A wallet created by an older release has been migrated, renamed by
\* UpdateWallet with an object that carries another m, and a second wallet
\* has been created next to it.
C16_Witness ==
  /\ walletDb[WalletId(OldRequest)] # NoStore
  /\ GetInt(walletDb[WalletId(OldRequest)].vint, "VERSION") = STORAGE_VER
  /\ GetString(walletDb[WalletId(OldRequest)].vstr, "NAME") = "n2"
  /\ GetString(walletDb[WalletId(OldRequest)].vstr, "DESCRIPTION") = "d"
  /\ Cardinality(walletFiles) >= 2
  /\ addrs # <<>>

\* C19 (PutString / PutInt report a change): the call returns true exactly
\* when the key had no row or its row held another value; writing the value
\* that is already stored returns false.
C19_PutReportsChange ==
  lastPut.called => (lastPut.ret <=> (~lastPut.had \/ ~lastPut.same))

\* C17 (the used flag is permanent): an address of the ledger whose used
\* flag is set keeps it across every ledger operation (AddAddress of the
\* same address included) and is not among GetAddresses(used = false, ..).
C17_UsedIsPermanent ==
  [][\A i \in DOMAIN addrs :
       addrs[i].used =>
         /\ \E j \in DOMAIN addrs' :
              addrs'[j].addr = addrs[i].addr /\ addrs'[j].used
         /\ addrs[i].addr \notin GetAddresses(addrs', FALSE, TRUE)
                                   \cup GetAddresses(addrs', FALSE, FALSE)]_vars

\* The last AddAddress call re-added an address that was already used, and
\* the address is still used.
C17_Witness ==
  /\ lastAdd.called
  /\ lastAdd.wasUsed
  /\ lastAdd.addr \in GetAddresses(addrs, TRUE, TRUE)
                        \cup GetAddresses(addrs, TRUE, FALSE)

\* C18 (draft re-keying loses nothing): for every old id and new id, when
\* UpdatePsbtTxId(old, new) returns (old is a draft and the copy is
\* inserted), the record under new is the draft (height -1, the old record's
\* payload and extension blob) and no record is left under old; when old is
\* not a draft no record changes.
C18_RekeyKeepsDraft ==
  [][\A old_id \in TxIds : \A new_id \in TxIds \ {old_id} :
       UpdatePsbtTxId(old_id, new_id) =>
         /\ (IsDraft(vtx, old_id) /\ ~HasTx(vtx, new_id)) =>
              /\ HasTx(vtx', new_id)
              /\ TxRow(vtx', new_id) = [TxRow(vtx, old_id) EXCEPT !.id = new_id]
              /\ ~HasTx(vtx', old_id)
         /\ ~IsDraft(vtx, old_id) => vtx' = vtx]_vars

\* C20 (current index is the lowest unallocated one): for every master
\* signer, GetUnusedIndex of the multisig bucket is the smallest index among
\* the bucket's rows with USED = -1, in whatever order the rows were added,
\* and -1 when there is no such row.
C20_LowestUnallocated ==
  \A fp \in Fingerprints :
    LET free == {GetIndexFromPath(signerDb[fp].bip32[i].path) :
                   i \in {j \in DOMAIN signerDb[fp].bip32 :
                            /\ signerDb[fp].bip32[j].type = GetBip32Type("multi")
                            /\ signerDb[fp].bip32[j].used = -1}}
        got == GetUnusedIndex(signerDb[fp].bip32, "multi")
    IN  IF free = {} THEN got = -1
        ELSE got \in free /\ \A k \in free : got <= k


----------------------------------------------------------------------------
(* Claims C21..C30 *)

\* C21: SyncWithBackup of a document whose ts is not newer than the stored
\* last-sync timestamp returns false and changes no wallet or signer
\* record; a document with a newer ts is imported and last-sync becomes ts.
C21_StaleImportIsNoOp ==
  lastCall.op = "SyncWithBackup" =>
    IF lastCall.ts <= lastCall.lastSyncTs
      THEN ~lastCall.ret /\ ~lastCall.changed
      ELSE lastCall.ret /\ GetLastSyncTs(appState) = lastCall.ts

\* C22: when a signer store that holds Remote entries is initialized as a
\* Master (CreateMasterSigner -> InitSigner), IsMaster becomes true and
\* GetRemoteSigner returns every Remote entry as it did before.
C22_UpgradeKeepsRemote ==
  [][\A fp \in Fingerprints : \A name \in SignerNames :
       (CreateMasterSignerFor(fp, name) /\ signerDb[fp].remote # <<>>)
         => /\ IsMaster(signerDb'[fp])
            /\ \A path \in RemotePaths :
                 GetRemoteSigner(signerDb'[fp].remote, path) =
                   GetRemoteSigner(signerDb[fp].remote, path)]_vars

\* A store that was upgraded while it held a Remote entry.
C22_Witness ==
  /\ IsMaster(signerDb["f2"])
  /\ GetRemoteSigner(signerDb["f2"].remote, RemoteKey.path) # {}

\* C30: DeleteRemoteSigner on an entry that is marked used returns false and
\* leaves the entry as GetRemoteSigner returned it, in every state the
\* signer-store operations lead to.
C30_UsedRemoteNotDeleted ==
  [][\A fp \in Fingerprints : \A path \in RemotePaths :
       (/\ DeleteRemoteSigner(fp, path)
        /\ \E r \in GetRemoteSigner(signerDb[fp].remote, path) : r.used)
         => /\ ~DeleteRemoteSignerRet(signerDb[fp].remote, path)
            /\ GetRemoteSigner(signerDb'[fp].remote, path) =
                 GetRemoteSigner(signerDb[fp].remote, path)]_vars

\* DeleteRemoteSigner was called on a used entry and on an unused one.
C30_Witness ==
  /\ lastCall.op = "DeleteRemoteSigner"
  /\ lastCall.wasUsed
  /\ ~lastCall.ret
  /\ GetRemoteSigner(signerDb[lastCall.fp].remote, lastCall.path) # {}

\* C23: the id under which CreateWallet stores a wallet equals the id
\* recomputed from the wallet's persisted state: the signer slots returned
\* by GetSigners with the stored m and the wallet kind (of the stored n).
C23_WalletIdFromPersistedState ==
  \A id \in walletFiles :
    LET wallet == GetWallet(id, walletDb[id]) IN
    WalletIdOf(WalletTypeOf(wallet.n), wallet.m, wallet.signers) = id

\* C24: a facade operation that writes a wallet store or the app-state
\* store holds the exclusive lock access_ while it writes.
C24_MutationUnderExclusiveLock ==
  [][\A t \in MigThreads :
       (mig'[t] # mig[t] /\ (version' # version \/ migrated' # migrated))
         => access_ = t]_vars

\* C25: after the name or the last health check of a signer is changed
\* (UpdateMasterSigner and SetHealthCheckSuccess on a Master,
\* UpdateRemoteSigner and SetHealthCheckSuccess on a Remote entry that
\* exists), GetWallet of every wallet shows the new value in every slot
\* that references the signer.
C25_RenameShowsInWallets ==
  [][LET Shown(id, i) == StorageGetWallet(walletDb'[id], signerDb').signers[i]
         Slots(id) == GetSigners(walletDb[id])
     IN  \A fp \in Fingerprints : \A id \in walletFiles :
           \A i \in DOMAIN Slots(id) :
             Slots(id)[i].fp = fp =>
               /\ \A name \in SignerNames :
                    (UpdateMasterSigner(fp, name) /\ IsMaster(signerDb[fp]))
                      => Shown(id, i).name = name
               /\ \A now \in 1..MaxClock :
                    (SetHealthCheckSuccessMaster(fp, now) /\ IsMaster(signerDb[fp]))
                      => Shown(id, i).last_health_check = now
               /\ \A name \in RemoteNames :
                    (/\ UpdateRemoteSigner(fp, Slots(id)[i].path, name)
                     /\ SetRemoteRet(signerDb[fp].remote, Slots(id)[i].path))
                      => Shown(id, i).name = name
               /\ \A now \in 1..MaxClock :
                    (/\ SetHealthCheckSuccessRemote(fp, Slots(id)[i].path, now)
                     /\ SetRemoteRet(signerDb[fp].remote, Slots(id)[i].path))
                      => Shown(id, i).last_health_check = now]_vars


\* C28: InitWallet on a wallet store that has been initialized already
\* fails and leaves the stored name, the policy data and the signer slots
\* as they were.
C28_InitWalletOnce ==
  [][\A id \in WalletIds : \A name \in InitNames : \A req \in WalletRequests :
       InitWalletCall(id, name, req) =>
         /\ lastCall'.threw
         /\ GetString(walletDb'[id].vstr, "NAME") =
              GetString(walletDb[id].vstr, "NAME")
         /\ GetWallet(id, walletDb'[id]) = GetWallet(id, walletDb[id])]_vars

\* The amounts of the outputs of a list that are confirmed, or unconfirmed
\* at an address of the ledger whose is-change flag is set.
RECURSIVE ConfirmedOrChange(_, _)
ConfirmedOrChange(A, utxos) ==
  IF utxos = <<>> THEN 0
  ELSE (IF \/ Head(utxos).height > 0
           \/ \E i \in DOMAIN A :
                A[i].addr = Head(utxos).addr /\ A[i].internal
          THEN Head(utxos).amount ELSE 0)
       + ConfirmedOrChange(A, Tail(utxos))

\* C29: GetBalance is the sum of the amounts of the outputs of
\* GetUnspentOutputs(true) that are confirmed (height > 0) or unconfirmed at
\* an address flagged as change; no other output contributes.
C29_BalanceIsConfirmedPlusChange ==
  GetBalance(addrs, vtx) =
    ConfirmedOrChange(addrs, GetUnspentOutputs(addrs, vtx, TRUE))

\* C27: LookAhead adds the candidate address to the address ledger only when
\* the backend history for it is non-empty; when the history is empty, the
\* status is neither READY nor SYNCING, or the chain is not the configured
\* one, it returns false and leaves the address ledger and the transaction
\* ledger as they were.
C27_LookAheadFrame ==
  lastCall.op = "LookAhead" =>
    /\ lastCall.added => lastCall.found
    /\ (\/ ~lastCall.found
        \/ ~lastCall.connected
        \/ ~lastCall.configured)
         => (~lastCall.ret /\ ~lastCall.changed)

\* A LookAhead call on a connected synchronizer found no history and
\* returned false, after an earlier call had put an address into the ledger.
C27_Witness ==
  /\ lastCall.op = "LookAhead"
  /\ lastCall.subscribed
  /\ ~lastCall.found
  /\ ~lastCall.ret
  /\ addrs # <<>>

\* C26: WaitForReady returns only when status is READY or SYNCING, and every
\* thread blocked in WaitForReady returns once status has moved into SYNCING
\* or READY, for every interleaving of the waiters with the worker.
C26_NoLostWakeup ==
  /\ [][\A u \in Waiters :
         (waiters[u].pc # "returned" /\ waiters'[u].pc = "returned")
           => status_ \in {"READY", "SYNCING"}]_vars
  /\ \A u \in Waiters :
       (waiters[u].pc \in {"blocked", "woken"} /\ status_ \in {"READY", "SYNCING"})
         ~> (waiters[u].pc = "returned")

\* C26 as amended: WaitForReady returns only when status is READY or
\* SYNCING, and a thread blocked in it while status is READY or SYNCING
\* returns unless status leaves READY and SYNCING before the thread has the
\* mutex again.
C26_WakesWhileReady ==
  /\ [][\A u \in Waiters :
         (waiters[u].pc # "returned" /\ waiters'[u].pc = "returned")
           => status_ \in {"READY", "SYNCING"}]_vars
  /\ \A u \in Waiters :
       (waiters[u].pc \in {"blocked", "woken"} /\ status_ \in {"READY", "SYNCING"})
         ~> (waiters[u].pc = "returned" \/ status_ \notin {"READY", "SYNCING"})

\* A thread that had blocked in WaitForReady has returned.
C26_Witness ==
  \E u \in Waiters : waiters[u].pc = "returned" /\ waiters[u].slept

\* The wallet addresses that payload t spends: the addresses paid by the
\* outputs its inputs refer to.
SpentAddresses(t) ==
  {TxOutputs(p[1])[p[2] + 1].addr : p \in {q \in TxInputs(t) : q[1] \in TxIds}}

\* C31: after InsertTransaction or UpdateTransaction has stored a transaction
\* at a height >= 0 that spends a ledger address as an input, the used flag
\* of that address is true.
C31_SpentAddressIsUsed ==
  [][\A t \in TxIds : \A h \in 0..MaxHeight :
       (\/ InsertTransaction(t, h) /\ ~HasTx(vtx, t)
        \/ UpdateTransaction(t, h) /\ UpdateTransactionRet(vtx, t, h))
         => \A i \in DOMAIN addrs' :
              addrs'[i].addr \in SpentAddresses(t) => addrs'[i].used]_vars

\* C32: a failure while one address of the catch-up pass is processed does
\* not abort the scan: the pass goes on with the step after that address, so
\* that the remaining addresses and wallets are still handled.
C32_AddressFailureSwallowed ==
  [][PassAddress(FALSE) => (worker' = "loop" /\ pos' = pos + 1)]_vars

\* C33: no chain-tip update is lost: when READY has been reached on a
\* connection whose catch-up pass ran to its end, the chain tip in the
\* app-state store is the height of the most recent header the backend
\* delivered on that connection, by the subscribe response or by a push.
C33_TipIsLatestHeader ==
  (status_ = "READY" /\ done = AllSyncAddresses /\ published = AllSyncWallets)
    => GetChainTip(appState) = tip.delivered

\* C34: once the status is STOPPED the synchronizer writes nothing more to
\* storage and fires no further listener: the chain tip in the app-state
\* store, the set of addresses stored and reconciled by the pass and the set
\* of balances handed to balance_listener_ stay as they are.
C34_NothingAfterStopped ==
  [][status_ = "STOPPED" =>
       /\ appState' = appState
       /\ done' = done
       /\ published' = published]_vars

\* C35: after MaybeMigrate(c) has returned, the wallet store of chain c is
\* at the current schema version and the app-state store of chain c holds
\* the current version, for every chain and every order of the calls.
C35_MigratedAfterReturn ==
  lastCall.op = "MaybeMigrate" =>
    /\ chainVer[lastCall.chain].wallet = STORAGE_VER
    /\ chainVer[lastCall.chain].app = STORAGE_VER

\* Position of a stored height in the lifecycle draft, broadcast, confirmed.
LifecycleRank(h) == IF h > 0 THEN 2 ELSE IF h = 0 THEN 1 ELSE 0

\* C36: no storage operation moves an existing record backwards in its
\* lifecycle: a record that is still stored after a step is at least as far
\* as before (confirmed stays confirmed, broadcast does not become a draft).
C36_LifecycleAdvances ==
  [][\A t \in TxIds :
       (HasTx(vtx, t) /\ HasTx(vtx', t)) =>
         LifecycleRank(TxRow(vtx', t).height) >= LifecycleRank(TxRow(vtx, t).height)]_vars

\* C37: when UpdateTransaction(t, 0) marks broadcast a draft t that was
\* created with replace_tx = T, a stored record of T gets replaced_by_txid
\* = t and nothing else of it changes; GetTransaction(T) then reports
\* REPLACED while T is at height 0 and CONFIRMED when T is confirmed.
C37_ReplacedRecordIsLinked ==
  [][\A t \in TxIds :
       (/\ IsDraft(vtx, t)
        /\ TxRow(vtx, t).extra.replace # ""
        /\ HasTx(vtx, TxRow(vtx, t).extra.replace)
        /\ UpdateTransaction(t, 0)
        /\ TxRow(vtx', t).height = 0)
       => LET T == TxRow(vtx, t).extra.replace IN
          /\ TxRow(vtx', T) = [TxRow(vtx, T) EXCEPT !.extra.replacedBy = t]
          /\ TxOfRow(TxRow(vtx', T)).status =
               IF TxRow(vtx, T).height = 0 THEN "REPLACED"
               ELSE StatusOfHeight(TxRow(vtx, T).height)]_vars

\* C38: after every CreateWallet(m, n, signers) that returns a wallet, the
\* wallet store holds exactly n signer slots, one per supplied signer (the
\* slots give the id the wallet was created under), and the stored m is at
\* most n.  createdAs holds what GetWallet says right after such a call.
C38_SlotsMatchPolicy ==
  \A id \in WalletIds :
    createdAs[id] # NoStore =>
      LET wallet == createdAs[id] IN
      /\ Len(wallet.signers) = wallet.n
      /\ wallet.m <= wallet.n
      /\ WalletIdOf(WalletTypeOf(wallet.n), wallet.m, wallet.signers) = id

\* A wallet of two slots has been created and a call with the same key in
\* both slots has left its store behind.
C38_Witness ==
  /\ \E req \in Requests : req.n = 2 /\ createdAs[WalletId(req)] # NoStore
  /\ WalletId(DuplicateRequest) \in walletFiles

\* C40: SyncWithBackup removes no local key material: every signer store
\* that exists before the import holds the same seed phrase after it, and
\* so is a software signer after it exactly if it was one before.
C40_ImportKeepsSeed ==
  [][(\E doc \in BackupDocumentsAll : SyncWithBackup(doc)) =>
       \A fp \in Fingerprints :
         signerDb[fp].file =>
           /\ signerDb'[fp].mnemonic = signerDb[fp].mnemonic
           /\ IsSoftware(signerDb'[fp]) = IsSoftware(signerDb[fp])]_vars

\* C39: GetUnspentOutputs returns no outpoint (txid, vout) twice, for
\* remove_locked true and false, in every ledger state: a change output
\* injected from a transaction at height 0 is skipped when the stored
\* snapshot of its address lists it too.
NoDuplicateOutpoint(rs) == Cardinality(Outpoints(rs)) = Len(rs)

C39_NoDuplicateUtxo ==
  \A remove_locked \in BOOLEAN :
    NoDuplicateOutpoint(GetUnspentOutputs(addrs, vtx, remove_locked))

\* The change output t2:1 is injected from the broadcast t2 while the stored
\* snapshot of c1 lists it as well.
C39_Witness ==
  /\ HasTx(vtx, "t2") /\ TxRow(vtx, "t2").height = 0
  /\ <<"t2", 1>> \in Outpoints(InjectedChange(addrs, vtx))
  /\ \E i \in DOMAIN addrs :
       /\ addrs[i].addr = "c1" /\ addrs[i].hasUtxo
       /\ \E k \in DOMAIN addrs[i].utxo :
            addrs[i].utxo[k].txid = "t2" /\ addrs[i].utxo[k].vout = 1
====
